---- MODULE Spec2Model ----
(***************************************************************************)
(* A model of peura-bot: the SentenceGraph Markov chain and the DeerBot    *)
(* command handler (src/lib/sentence-graph.js), WikiGenerator              *)
(* (src/lib/wiki-generator.js), RateLimiter (src/lib/rate-limiter.js) and  *)
(* the TelegramBot poll loop (src/unnamed/part_000).                       *)
(*                                                                         *)
(* Strings are sequences of one-character strings, so that lowercasing,    *)
(* concatenation and substring search are computed as the code computes    *)
(* them.  A JavaScript Map or Set is the sequence of its entries in        *)
(* insertion order.  Scores and exponents are exact rationals              *)
(* <<numerator, denominator>>; the token count of a RateLimiter is an      *)
(* IEEE 754 double, added, subtracted and divided with rounding to nearest.*)
(*                                                                         *)
(* SpecAnalyze: SentenceGraph.analyze called with any short array of      *)
(*              words, and rebuilding the model from its exported data     *)
(*              object.                                                    *)
(* SpecAttempt: direct SentenceGraph.generate calls, one loop iteration    *)
(*              per step, on a model on which SentenceGraph.analyze was    *)
(*              called with the word arrays of a corpus.                   *)
(* Spec:        WikiGenerator.generate (best of N attempts) on such a      *)
(*              model; the language's graph is taken to exist.             *)
(* SpecClamp:   whole SentenceGraph.generate calls: what a call returns    *)
(*              and the Map it leaves, by its arguments and the values     *)
(*              Math.random returns.                                       *)
(* SpecLimiter: one RateLimiter under any constructor arguments, clock     *)
(*              changes, reads and removals.                               *)
(* SpecWiki:    a WikiGenerator constructed with a request limit of its    *)
(*              own: analyze calls, their responses, and the clock.        *)
(* SpecMinute:  DeerBot's commands start, help and study as time passes:   *)
(*              the limiters DeerBot keeps per user and WikiGenerator      *)
(*              keeps for its requests.                                    *)
(* SpecBot:     every command of DeerBot from an admin and from another    *)
(*              user, at one instant; the study requests fail.             *)
(* SpecFiles:   writing the generator to a file and reading it back,       *)
(*              between study and explain commands.                        *)
(* SpecStudy:   study and explain commands of an awake bot with every      *)
(*              response of the article service, at one instant.           *)
(* SpecPoll:    a TelegramBot constructed with options of its own: poll    *)
(*              loop, updates, responses, errors, and listeners that       *)
(*              answer a message at once, later or never.                  *)
(*                                                                         *)
(* A DeerBot holds a WikiGenerator and a TelegramBot with the defaults of  *)
(* their options (12 requests per minute, lines of 20 characters, order    *)
(* 4; 120 requests per minute); its own options are given to the           *)
(* constructor.  Every answer of the DeerBot goes through the callback of  *)
(* its TelegramBot: a token of the TelegramBot's request limiter and a     *)
(* sendMessage request, which Telegram answers in two further steps        *)
(* (AnswerFetched, AnswerParsed) before anything else reaches the bot.     *)
(*                                                                         *)
(* JavaScript runs a callback to completion: one step of the model is the  *)
(* code between two awaits.  A function that awaits a call which ended     *)
(* without waiting goes on after the synchronous code around it: the       *)
(* study command is answered in a step of its own (StudyAnswered).  The    *)
(* histories of what a callback did are blanked when it returns            *)
(* (CallbackReturns), before the next one runs.                            *)
(***************************************************************************)
EXTENDS Integers, Sequences, FiniteSets, TLC

VARIABLES
    order,      \* SentenceGraph._order
    graph,      \* SentenceGraph._graph: the Map's entries, in insertion order
    nAnalyze,   \* number of analyze calls made so far
    lastWords,  \* history: the argument of the latest analyze call
    finals,     \* history: the final tail of every analyze call that did not return early
    snapshot,   \* <<>> or <<d>>: d is the data object the model was last rebuilt from
    pc,         \* "idle", "sample", "loop", "ret", "done": position in WikiGenerator.generate
    args,       \* the arguments of the WikiGenerator.generate call in flight
    candidate,  \* WikiGenerator.generate: candidate
    results,    \* history: what each graph.generate call of this generate call returned
    alpha,      \* SentenceGraph.generate: alpha after clamping
    beta,       \* SentenceGraph.generate: beta after clamping
    keywords,   \* SentenceGraph.generate: keywords, lowercased and deduplicated
    i,          \* SentenceGraph.generate: loop counter
    queue,      \* SentenceGraph.generate: queue
    sentence,   \* SentenceGraph.generate: sentence
    found,      \* SentenceGraph.generate: found
    remaining,  \* SentenceGraph.generate: remaining
    score,      \* SentenceGraph.generate: score
    result,     \* what the latest graph.generate call returned
    how,        \* history: how the latest attempt ended
    matched,    \* history: the keywords removed from remaining during the attempt
    laps,       \* history: how often remaining was refilled during the attempt
    steps,      \* history: how many loop iterations the attempt has begun
    drew,       \* history: "none", or what the latest iteration sampled: "word", "noword"
    graph0,     \* history: the Map's entries when the attempt was entered
    outcome,    \* <<>> or <<c>>: c is a generate call on given random draws and what it returned
    now,        \* Date.now(), in milliseconds
    limiter,    \* <<>> or <<r>>: r is the RateLimiter object
    built,      \* history: <<>> or <<a>>: a is the arguments the RateLimiter was constructed with
    lastCall,   \* history: <<>> or <<c>>: c is the latest call on the RateLimiter, the nth
    options,    \* <<>> or <<o>>: o is DeerBot._options
    users,      \* DeerBot._users: for every user, <<>> or <<r>>, r the entry's rateLimiter
    accepted,   \* history: for every user, the times at which a command passed the rate limit
    requests,   \* history: the times at which WikiGenerator.analyze issued a request
    awake,      \* DeerBot._awake
    wiki,       \* <<>> or <<w>>: w holds the _options and the _library of the WikiGenerator
    calls,      \* the WikiGenerator.analyze calls that wait at an await, or have ended and are awaited
    detached,   \* the replaced WikiGenerators on which analyze calls are still waiting
    disk,       \* for every file name, <<>> or <<d>>: d is what the file holds
    lastCmd,    \* history: <<>> or <<c>>: c is the latest _onCommand call and what it did
    lastAnalyze,\* history: <<>> or <<c>>: c is the latest step of a WikiGenerator.analyze call or of its caller
    telegram,   \* <<>> or <<t>>: t is the TelegramBot object
    pending,    \* the requests and timers of the TelegramBot that are outstanding
    events,     \* history: the errors raised in the TelegramBot and what its listeners received
    kept        \* the callbacks of TelegramBot a 'message' listener keeps to call later, by text

vars == <<order, graph, nAnalyze, lastWords, finals, snapshot, pc, args, candidate,
          results, alpha, beta, keywords, i, queue, sentence, found, remaining,
          score, result, how, matched, laps, steps, drew, graph0, outcome, now,
          limiter, built, lastCall, options, users, accepted, requests, awake, wiki,
          calls, detached, disk, lastCmd, lastAnalyze, telegram, pending, events,
          kept>>

graphVars == <<order, graph, nAnalyze, lastWords, finals, snapshot>>

genVars == <<pc, args, candidate, results, alpha, beta, keywords, i, queue, sentence,
             found, remaining, score, result, how, matched, laps, steps, drew, graph0>>

\* DeerBot, the calls waiting on its WikiGenerator, the files, the TelegramBot
botVars == <<awake, wiki, calls, detached, disk, lastCmd, lastAnalyze, telegram, pending,
             events, kept>>

limiterVars == <<now, limiter, built, lastCall, options, users, accepted, requests, botVars>>

\* what the SentenceGraph and the WikiGenerator leave alone
auxVars == <<outcome, now, limiter, built, lastCall, options, users, accepted,
            requests, botVars>>

----------------------------------------------------------------------------
(* Bounds *)

\* analyze calls per model under SpecAnalyze
MaxAnalyze == 2

\* tokens per analyze call under SpecAnalyze
MaxWords == 2

\* analyze calls per model under Spec
MaxLearn == 2

\* largest target length passed to generate
MaxLength == 2

\* largest sample count passed to generate
MaxSamples == 2

\* latest clock value, in milliseconds, under SpecLimiter
MaxTime == 3

\* how many half minutes the clock runs
MaxHalfMinutes == 2

----------------------------------------------------------------------------
(* Strings *)

\* String.prototype.toLowerCase on one character
LowerChar(c) == CASE c = "A" -> "a" [] c = "B" -> "b" [] OTHER -> c

\* String.prototype.toLowerCase
toLowerCase(s) == [k \in 1..Len(s) |-> LowerChar(s[k])]

\* Array.prototype.join('')
RECURSIVE join(_)
join(q) == IF q = <<>> THEN <<>> ELSE Head(q) \o join(Tail(q))

\* String.prototype.indexOf(sub) !== -1
includes(s, sub) ==
    \E k \in 0..(Len(s) - Len(sub)) : SubSeq(s, k + 1, k + Len(sub)) = sub

\* Array.prototype.indexOf(x): 0 when absent, else the first position (1-based)
indexOf(seq, x) ==
    IF \E k \in 1..Len(seq) : seq[k] = x
    THEN CHOOSE k \in 1..Len(seq) : seq[k] = x /\ \A j \in 1..(k - 1) : seq[j] # x
    ELSE 0

\* Array.prototype.splice(k, 1), k 1-based
splice(seq, k) == SubSeq(seq, 1, k - 1) \o SubSeq(seq, k + 1, Len(seq))

RECURSIVE SumSeq(_)
SumSeq(s) == IF s = <<>> THEN 0 ELSE Head(s) + SumSeq(Tail(s))

Max(a, b) == IF a >= b THEN a ELSE b
Min(a, b) == IF a <= b THEN a ELSE b

\* the tokens the tokenizer hands to analyze
Tokens == { <<"a">>, <<"B">>, <<"A", "b">> }

SeqsUpTo(S, n) == UNION { [1..m -> S] : m \in 0..n }

----------------------------------------------------------------------------
(* SentenceGraph: nodes and the tail -> node Map *)

createEmptyNode == [links |-> <<>>, freqs |-> <<>>, weight |-> 0, isExit |-> FALSE]

toTail(q) == toLowerCase(join(q))

\* Map.prototype.has
MapHas(g, tail) == \E k \in 1..Len(g) : g[k].tail = tail

MapIndex(g, tail) == CHOOSE k \in 1..Len(g) : g[k].tail = tail

\* Map.prototype.get on a present key
MapGet(g, tail) == g[MapIndex(g, tail)].node

\* Map.prototype.set: a present key keeps its position
MapSet(g, tail, node) ==
    IF MapHas(g, tail)
    THEN [g EXCEPT ![MapIndex(g, tail)].node = node]
    ELSE Append(g, [tail |-> tail, node |-> node])

\* SentenceGraph._nodeAt: the Map after the call (a missing node is created)
nodeAt(g, tail) == IF MapHas(g, tail) THEN g ELSE MapSet(g, tail, createEmptyNode)

updateNodeAppending(node, word) ==
    [node EXCEPT !.links = Append(@, word), !.freqs = Append(@, 1), !.weight = @ + 1]

updateNodeNoWeight(node, word) ==
    LET index == indexOf(node.links, word) IN
    IF index = 0
    THEN [node EXCEPT !.links = Append(@, word), !.freqs = Append(@, 1)]
    ELSE [node EXCEPT !.freqs[index] = @ + 1]

updateNode(node, word) ==
    LET index == indexOf(node.links, word) IN
    IF index = 0
    THEN [node EXCEPT !.links = Append(@, word), !.freqs = Append(@, 1), !.weight = @ + 1]
    ELSE [node EXCEPT !.freqs[index] = @ + 1, !.weight = @ + 1]

\* queue.push(word); if (queue.length > order) queue.shift()
pushQueue(q, word, ord) ==
    LET q1 == Append(q, word) IN IF Len(q1) > ord THEN Tail(q1) ELSE q1

\* the body of analyze's for loop over the rest of the words, then its last two lines
RECURSIVE analyzeFrom(_, _, _, _)
analyzeFrom(g, ord, words, q) ==
    LET tail == toTail(q) IN
    IF words = <<>>
    THEN LET g1 == nodeAt(g, tail)
             n  == MapGet(g1, tail)
         IN  MapSet(g1, tail, [n EXCEPT !.weight = @ + 1, !.isExit = TRUE])
    ELSE LET g1 == nodeAt(g, tail)
             g2 == MapSet(g1, tail, updateNode(MapGet(g1, tail), Head(words)))
         IN  analyzeFrom(g2, ord, Tail(words), pushQueue(q, Head(words), ord))

analyzeNoEviction(g, ord, words) ==
    IF Len(words) = 0 THEN g ELSE analyzeFrom(g, ord + 1, words, <<>>)

\* SentenceGraph.analyze: the Map after the call
analyze(g, ord, words) ==
    IF Len(words) = 0 THEN g ELSE analyzeFrom(g, ord, words, <<>>)

\* new SentenceGraph(order, graph): order is given in halves, so that
\* Math.floor has something to do
constructor(orderHalves, g) == [order |-> Max(1, orderHalves \div 2), graph |-> g]

\* Array.from(map): an array of [key, value] pairs
ArrayFrom(g) == [k \in 1..Len(g) |-> <<g[k].tail, g[k].node>>]

\* new Map(pairs)
RECURSIVE NewMap(_)
NewMap(pairs) ==
    IF pairs = <<>> THEN <<>>
    ELSE LET front == SubSeq(pairs, 1, Len(pairs) - 1)
             last  == pairs[Len(pairs)]
         IN  MapSet(NewMap(front), last[1], last[2])

toDataObject(ord, g) == [order |-> ord, graphData |-> ArrayFrom(g)]

newFromDataObjectNoGraph(data) == constructor(2 * data.order, <<>>)

newFromDataObject(data) == constructor(2 * data.order, NewMap(data.graphData))

----------------------------------------------------------------------------
(* Initial state: a freshly constructed model, no generate call in flight *)

OrderArgs == {0, 2, 3, 4}    \* constructor arguments 0, 1, 1.5 and 2, in halves

Null == <<>>

EmptyResult == [sentence |-> <<>>, score |-> <<0, 1>>]

GenIdle ==
    /\ pc = "idle"
    /\ args = Null
    /\ candidate = EmptyResult
    /\ results = <<>>
    /\ alpha = <<0, 1>>
    /\ beta = <<0, 1>>
    /\ keywords = <<>>
    /\ i = 0
    /\ queue = <<>>
    /\ sentence = <<>>
    /\ found = <<>>
    /\ remaining = <<>>
    /\ score = <<0, 1>>
    /\ result = EmptyResult
    /\ how = "none"
    /\ matched = {}
    /\ laps = 0
    /\ steps = 0
    /\ drew = "none"
    /\ graph0 = <<>>

\* the users who send commands
Users == {"ann", "bob"}

\* config.admins
Admins == {"ann"}

\* the names under which the generator can be stored, the extension left out
FileNames == { <<"f">> }

Init ==
    /\ \E o \in OrderArgs :
          /\ order = constructor(o, <<>>).order
          /\ graph = constructor(o, <<>>).graph
    /\ nAnalyze = 0
    /\ lastWords = <<>>
    /\ finals = <<>>
    /\ snapshot = <<>>
    /\ GenIdle
    /\ outcome = <<>>
    /\ now = 0
    /\ limiter = <<>>
    /\ built = <<>>
    /\ lastCall = <<>>
    /\ options = <<>>
    /\ users = [u \in Users |-> <<>>]
    /\ accepted = [u \in Users |-> <<>>]
    /\ requests = <<>>
    /\ awake = FALSE
    /\ wiki = <<>>
    /\ calls = <<>>
    /\ detached = <<>>
    /\ disk = [f \in FileNames |-> <<>>]
    /\ lastCmd = <<>>
    /\ lastAnalyze = <<>>
    /\ telegram = <<>>
    /\ pending = <<>>
    /\ events = <<>>
    /\ kept = <<>>

----------------------------------------------------------------------------
(* Actions on the model *)

DoAnalyze(words) ==
    /\ pc = "idle"
    /\ graph' = analyze(graph, order, words)
    /\ nAnalyze' = nAnalyze + 1
    /\ lastWords' = words
    /\ finals' = IF Len(words) = 0 THEN finals
                 ELSE Append(finals,
                        toTail(SubSeq(words, Max(1, Len(words) - order + 1), Len(words))))
    /\ snapshot' = <<>>
    /\ UNCHANGED order

\* SentenceGraph.analyze with any token sequence
Analyze ==
    /\ nAnalyze < MaxAnalyze
    /\ \E words \in SeqsUpTo(Tokens, MaxWords) : DoAnalyze(words)
    /\ UNCHANGED genVars
    /\ UNCHANGED auxVars

\* toDataObject, then newFromDataObject on what it returned
Reload ==
    /\ pc = "idle"
    /\ snapshot = <<>>
    /\ nAnalyze > 0
    /\ LET data  == toDataObject(order, graph)
           model == newFromDataObject(data)
       IN  /\ snapshot' = <<data>>
           /\ order' = model.order
           /\ graph' = model.graph
    /\ UNCHANGED <<nAnalyze, lastWords, finals>>
    /\ UNCHANGED genVars
    /\ UNCHANGED auxVars

NextAnalyze == Analyze \/ Reload

SpecAnalyze == Init /\ [][NextAnalyze]_vars

----------------------------------------------------------------------------
(* Numbers: scores are rationals <<n, d>> in lowest terms, d > 0 *)

RECURSIVE GCD(_, _)
GCD(a, b) == IF b = 0 THEN a ELSE GCD(b, a % b)

Rat(n, d) == <<n \div GCD(n, d), d \div GCD(n, d)>>

RatAdd(x, y) == Rat(x[1] * y[2] + y[1] * x[2], x[2] * y[2])
RatMul(x, y) == Rat(x[1] * y[1], x[2] * y[2])
RatInv(x) == Rat(x[2], x[1])
RatGt(x, y) == x[1] * y[2] > y[1] * x[2]

RECURSIVE RatPowInt(_, _)
RatPowInt(x, k) == IF k = 0 THEN <<1, 1>> ELSE RatMul(x, RatPowInt(x, k - 1))


RatSub(x, y) == Rat(x[1] * y[2] - y[1] * x[2], x[2] * y[2])

RatMax(x, y) == IF RatGt(y, x) THEN y ELSE x

RatMin(x, y) == IF RatGt(x, y) THEN y ELSE x

RatGe(x, y) == ~RatGt(y, x)

\* Math.pow(x, e) for x >= 0 and e > 0.  A fractional power is exact only of
\* 0 and 1; the arguments of generate are drawn so that no other one is asked
\* for (evaluation fails if one is).
pow(x, e) ==
    IF e[2] = 1 THEN RatPowInt(x, e[1])
    ELSE IF x[1] = 0 THEN <<0, 1>>
    ELSE IF x = <<1, 1>> THEN <<1, 1>>
    ELSE CHOOSE r \in {} : TRUE

clampNone(x) == x

\* Math.max(0.0625, Math.min(16.0, x))
clamp(x) == RatMax(<<1, 16>>, RatMin(<<16, 1>>, x))

----------------------------------------------------------------------------
(* SentenceGraph.generate *)

\* the value of word when sampleNode found no edge (no token is empty)
NoWord == <<>>

\* Array.from(new Set(seq)): first occurrences, in order
RECURSIVE dedup(_)
dedup(seq) ==
    IF seq = <<>> THEN <<>>
    ELSE LET front == dedup(SubSeq(seq, 1, Len(seq) - 1))
             last  == seq[Len(seq)]
         IN  IF indexOf(front, last) # 0 THEN front ELSE Append(front, last)

\* keywords.map((x) => x.toLowerCase()), then the deduplication
prepareKeywords(kws) == dedup([k \in 1..Len(kws) |-> toLowerCase(kws[k])])

\* createMatchNode's inner loop for one word: one push per matching keyword
RECURSIVE matchWord(_, _, _, _)
matchWord(res, word, freq, kws) ==
    IF kws = <<>> THEN res
    ELSE IF includes(toLowerCase(word), Head(kws))
         THEN matchWord([res EXCEPT !.links = Append(@, word),
                                    !.freqs = Append(@, freq),
                                    !.weight = @ + freq],
                        word, freq, Tail(kws))
         ELSE matchWord(res, word, freq, Tail(kws))

RECURSIVE matchFrom(_, _, _, _, _)
matchFrom(res, node, kws, fnd, k) ==
    IF k > Len(node.links) THEN res
    ELSE IF indexOf(fnd, node.links[k]) # 0
         THEN matchFrom(res, node, kws, fnd, k + 1)
         ELSE matchFrom(matchWord(res, node.links[k], node.freqs[k], kws),
                        node, kws, fnd, k + 1)

createMatchNode(node, kws, fnd) == matchFrom(createEmptyNode, node, kws, fnd, 1)

RECURSIVE sampleFrom(_, _, _)
sampleFrom(node, pick, edge) ==
    IF edge > Len(node.freqs) THEN [word |-> NoWord, chance |-> <<1, 1>>]
    ELSE IF pick < node.freqs[edge]
         THEN [word |-> node.links[edge], chance |-> Rat(node.freqs[edge], node.weight)]
         ELSE sampleFrom(node, pick - node.freqs[edge], edge + 1)

\* sampleNode, with pick = Math.floor(Math.random() * node.weight)
sampleNode(node, pick) ==
    IF node.weight = 0 THEN [word |-> NoWord, chance |-> <<1, 1>>]
    ELSE sampleFrom(node, pick, 1)

\* remaining.findIndex((x) => lowercase.indexOf(x) !== -1): 0 when none
findIndex(rem, lowercase) ==
    IF \E k \in 1..Len(rem) : includes(lowercase, rem[k])
    THEN CHOOSE k \in 1..Len(rem) :
            /\ includes(lowercase, rem[k])
            /\ \A j \in 1..(k - 1) : ~includes(lowercase, rem[j])
    ELSE 0

recordMatchKeyword(word, fnd, rem, kws) ==
    LET matchIndex == findIndex(rem, toLowerCase(word)) IN
    IF matchIndex # 0 /\ indexOf(fnd, word) = 0
    THEN LET rem1 == splice(rem, matchIndex) IN
         [found     |-> Append(fnd, rem[matchIndex]),
          remaining |-> IF Len(rem1) < 1 THEN kws ELSE rem1,
          keyword   |-> {rem[matchIndex]},
          refilled  |-> IF Len(rem1) < 1 THEN 1 ELSE 0]
    ELSE [found |-> fnd, remaining |-> rem, keyword |-> {}, refilled |-> 0]

recordMatchNoRefill(word, fnd, rem, kws) ==
    LET matchIndex == findIndex(rem, toLowerCase(word)) IN
    IF matchIndex # 0 /\ indexOf(fnd, word) = 0
    THEN [found     |-> Append(fnd, word),
          remaining |-> splice(rem, matchIndex),
          keyword   |-> {rem[matchIndex]},
          refilled  |-> 0]
    ELSE [found |-> fnd, remaining |-> rem, keyword |-> {}, refilled |-> 0]

\* the keyword bookkeeping after a word was appended; keyword and refilled
\* tell the history variables what happened
recordMatch(word, fnd, rem, kws) ==
    LET matchIndex == findIndex(rem, toLowerCase(word)) IN
    IF matchIndex # 0 /\ indexOf(fnd, word) = 0
    THEN LET rem1 == splice(rem, matchIndex) IN
         [found     |-> Append(fnd, word),
          remaining |-> IF Len(rem1) < 1 THEN kws ELSE rem1,
          keyword   |-> {rem[matchIndex]},
          refilled  |-> IF Len(rem1) < 1 THEN 1 ELSE 0]
    ELSE [found |-> fnd, remaining |-> rem, keyword |-> {}, refilled |-> 0]

buildResult(sen, sc, fnd, b) ==
    [sentence |-> sen, score |-> RatMul(sc, pow(<<Len(fnd), 1>>, b))]

nodeToSampleFull(node, rem, fnd) == node

\* the node the step samples: the keyword view when it has weight
nodeToSample(node, rem, fnd) ==
    IF Len(rem) > 0 /\ createMatchNode(node, rem, fnd).weight > 0
    THEN createMatchNode(node, rem, fnd)
    ELSE node

----------------------------------------------------------------------------
(* WikiGenerator.generate and the attempts it makes *)

\* the arrays of words SentenceGraph.analyze is called with under SpecAttempt
\* and Spec, one call per array.  The method takes any array of strings;
\* WikiGenerator passes it the arrays parseWords makes, in which no two words
\* of letters are neighbours
Corpus == { << <<"a">> >>,
            << <<"B">> >>,
            << <<"A", "b">> >>,
            << <<"a">>, <<"A", "b">> >>,
            << <<"a">>, <<"B">>, <<"a">> >> }

\* keyword lists: none; "A" and "a"; "a" and "b"; "ab"
KeywordArgs == { <<>>,
                 << <<"A">>, <<"a">> >>,
                 << <<"a">>, <<"b">> >>,
                 << <<"a", "b">> >> }

\* a fractional beta is applied to found.length, which must then be 0 or 1
Representable(a) ==
    clamp(a.beta)[2] = 1 \/ a.keywords = <<>> \/ a.maxLength <= 2

\* <<alpha, beta>>: 1.0 and 2.0, and a beta of 0
ExponentArgs == { << <<1, 1>>, <<1, 1>> >>, << <<2, 1>>, <<1, 1>> >>,
                  << <<1, 1>>, <<2, 1>> >>, << <<1, 1>>, <<0, 1>> >> }

\* the arguments of a direct SentenceGraph.generate call
AttemptArgs ==
    { a \in { [ length    |-> l,
                maxLength |-> m,
                keywords  |-> k,
                alpha     |-> e[1],
                beta      |-> e[2] ] :
              l \in 0..MaxLength, m \in 0..(MaxLength + 1), k \in KeywordArgs,
              e \in ExponentArgs } : Representable(a) }

\* the arguments of a WikiGenerator.generate call
GenerateArgs ==
    { [ length    |-> a.length,
        maxLength |-> a.maxLength,
        keywords  |-> a.keywords,
        samples   |-> n,
        alpha     |-> a.alpha,
        beta      |-> a.beta ] : a \in AttemptArgs, n \in 0..MaxSamples }

resultWorse(res, cand) == RatGt(cand.score, res.score)

resultNotWorse(res, cand) == ~RatGt(cand.score, res.score)

\* result.score > candidate.score
resultBetter(res, cand) == RatGt(res.score, cand.score)

\* SentenceGraph.analyze with a text of the corpus
Learn ==
    /\ nAnalyze < MaxLearn
    /\ \E words \in Corpus : DoAnalyze(words)
    /\ UNCHANGED genVars
    /\ UNCHANGED auxVars

\* WikiGenerator.generate up to its for loop
WikiGenerate ==
    /\ pc = "idle"
    /\ \E a \in GenerateArgs : args' = a
    /\ candidate' = EmptyResult
    /\ results' = <<>>
    /\ pc' = "sample"
    /\ UNCHANGED graphVars
    /\ UNCHANGED auxVars
    /\ UNCHANGED <<alpha, beta, keywords, i, queue, sentence, found, remaining, score,
                   result, how, matched, laps, steps, drew, graph0>>

\* SentenceGraph.generate up to its for loop, called with arguments a
EnterAttempt(a) ==
    /\ alpha' = clamp(a.alpha)
    /\ beta' = clamp(a.beta)
    /\ sentence' = <<>>
    /\ queue' = <<>>
    /\ found' = <<>>
    /\ score' = <<0, 1>>
    /\ keywords' = prepareKeywords(a.keywords)
    /\ remaining' = prepareKeywords(a.keywords)
    /\ i' = 0
    /\ how' = "none"
    /\ matched' = {}
    /\ laps' = 0
    /\ steps' = 0
    /\ drew' = "none"
    /\ graph0' = graph
    /\ pc' = "loop"

\* graph.generate called by WikiGenerator.generate
AttemptStart ==
    /\ pc = "sample"
    /\ Len(results) < args.samples
    /\ EnterAttempt(args)
    /\ UNCHANGED graphVars
    /\ UNCHANGED auxVars
    /\ UNCHANGED <<args, candidate, results, result>>

\* SentenceGraph.generate called on its own
GenerateOnce ==
    /\ pc = "idle"
    /\ \E a \in AttemptArgs : args' = a /\ EnterAttempt(a)
    /\ UNCHANGED graphVars
    /\ UNCHANGED auxVars
    /\ UNCHANGED <<candidate, results, result>>

\* the loop condition of the for loop
loopContinuesOnceMore(idx, maxLength) == idx <= maxLength

loopContinues(idx, maxLength) == idx < maxLength

\* what generate returns once the loop was left by break or by its condition
afterLoopKeepsText(sen, sc) == [sentence |-> sen, score |-> sc]

afterLoop(sen, sc) == [sentence |-> <<>>, score |-> <<0, 1>>]

\* if (i >= length && node.isExit)
mayStopAtAnyStep(idx, length, node) == node.isExit

mayStopLate(idx, length, node) == idx > length /\ node.isExit

mayStop(idx, length, node) == idx >= length /\ node.isExit

\* the soft sentence break: sentence += ' '; queue = []
softBreakKeepsQueue(sen, q) == [sentence |-> Append(sen, " "), queue |-> q]

softBreak(sen, q) == [sentence |-> Append(sen, " "), queue |-> <<>>]

\* the for loop ends at i = maxLength
Exhausted ==
    /\ pc = "loop"
    /\ ~loopContinues(i, args.maxLength)
    /\ result' = afterLoop(sentence, score)
    /\ how' = "exhausted"
    /\ pc' = "ret"
    /\ UNCHANGED graphVars
    /\ UNCHANGED auxVars
    /\ UNCHANGED <<args, candidate, results, alpha, beta, keywords, i, queue, sentence,
                   found, remaining, score, matched, laps, steps, drew, graph0>>

Returns(res, h) ==
    /\ result' = res
    /\ how' = h
    /\ pc' = "ret"
    /\ drew' = "none"
    /\ UNCHANGED <<i, queue, sentence, found, remaining, score, matched, laps>>

\* one iteration of the for loop
Iterate ==
    /\ pc = "loop"
    /\ loopContinues(i, args.maxLength)
    /\ steps' = steps + 1
    /\ LET tail == toTail(queue)
           g1   == nodeAt(graph, tail)
           node == MapGet(g1, tail)
       IN
       /\ graph' = g1
       /\ IF node.weight = 0
          THEN Returns(afterLoop(sentence, score), "abort")
          ELSE IF mayStop(i, args.length, node)
          THEN Returns(buildResult(sentence, score, found, beta), "exit")
          ELSE \E pick \in 0..(nodeToSample(node, remaining, found).weight - 1) :
                 LET s      == sampleNode(nodeToSample(node, remaining, found), pick)
                     score1 == IF RatGt(s.chance, <<0, 1>>)
                               THEN RatAdd(score, pow(RatInv(s.chance), alpha))
                               ELSE score
                     m      == recordMatch(s.word, found, remaining, keywords)
                 IN
                 IF s.word = NoWord
                 THEN /\ drew' = "noword"
                      /\ IF i < args.length
                         THEN /\ sentence' = softBreak(sentence, queue).sentence
                              /\ queue' = softBreak(sentence, queue).queue
                              /\ score' = score1
                              /\ i' = i + 1
                              /\ UNCHANGED <<pc, result, how, found, remaining, matched,
                                             laps>>
                         ELSE /\ score' = score1
                              /\ result' = buildResult(sentence, score1, found, beta)
                              /\ how' = "noword"
                              /\ pc' = "ret"
                              /\ UNCHANGED <<i, queue, sentence, found, remaining, matched,
                                             laps>>
                 ELSE /\ drew' = "word"
                      /\ queue' = pushQueue(queue, s.word, order)
                      /\ sentence' = sentence \o s.word
                      /\ score' = score1
                      /\ found' = m.found
                      /\ remaining' = m.remaining
                      /\ matched' = matched \cup m.keyword
                      /\ laps' = laps + m.refilled
                      /\ i' = i + 1
                      /\ UNCHANGED <<pc, result, how>>
    /\ UNCHANGED <<order, nAnalyze, lastWords, finals, snapshot>>
    /\ UNCHANGED auxVars
    /\ UNCHANGED <<args, candidate, results, alpha, beta, keywords, graph0>>

\* if (result.score > candidate.score) { candidate = result; }
Compare ==
    /\ pc = "ret"
    /\ candidate' = IF resultBetter(result, candidate) THEN result ELSE candidate
    /\ results' = Append(results, [sentence |-> result.sentence, score |-> result.score,
                                   how |-> how, found |-> Len(found)])
    /\ pc' = "sample"
    /\ UNCHANGED graphVars
    /\ UNCHANGED auxVars
    /\ UNCHANGED <<args, alpha, beta, keywords, i, queue, sentence, found, remaining,
                   score, result, how, matched, laps, steps, drew, graph0>>

\* the for loop over the samples ends; candidate is returned
Return ==
    /\ pc = "sample"
    /\ ~(Len(results) < args.samples)
    /\ pc' = "done"
    /\ UNCHANGED graphVars
    /\ UNCHANGED auxVars
    /\ UNCHANGED <<args, candidate, results, alpha, beta, keywords, i, queue, sentence,
                   found, remaining, score, result, how, matched, laps, steps, drew, graph0>>

\* nothing of the call is left
Forget ==
    /\ pc' = "idle"
    /\ args' = Null
    /\ candidate' = EmptyResult
    /\ results' = <<>>
    /\ alpha' = <<0, 1>>
    /\ beta' = <<0, 1>>
    /\ keywords' = <<>>
    /\ i' = 0
    /\ queue' = <<>>
    /\ sentence' = <<>>
    /\ found' = <<>>
    /\ remaining' = <<>>
    /\ score' = <<0, 1>>
    /\ result' = EmptyResult
    /\ how' = "none"
    /\ matched' = {}
    /\ laps' = 0
    /\ steps' = 0
    /\ drew' = "none"
    /\ graph0' = <<>>

\* the caller of WikiGenerator.generate has taken the result
Finish ==
    /\ pc = "done"
    /\ Forget
    /\ UNCHANGED graphVars
    /\ UNCHANGED auxVars

\* the caller of SentenceGraph.generate has taken the result
TakeResult ==
    /\ pc = "ret"
    /\ Forget
    /\ UNCHANGED graphVars
    /\ UNCHANGED auxVars

\* best-of-N generation on a model that learns from the corpus
Next ==
    \/ Learn
    \/ WikiGenerate
    \/ AttemptStart
    \/ Exhausted
    \/ Iterate
    \/ Compare
    \/ Return
    \/ Finish

Spec == Init /\ [][Next]_vars

\* single attempts on a model that learns from the corpus
NextAttempt ==
    \/ Learn
    \/ GenerateOnce
    \/ Exhausted
    \/ Iterate
    \/ TakeResult

SpecAttempt == Init /\ [][NextAttempt]_vars

----------------------------------------------------------------------------
(* SentenceGraph.generate as a function of its arguments and its random draws *)
(* The score is kept as the Math.pow calls that make it up: the list of the  *)
(* sampled chances with the exponent they are raised under, and the base and *)
(* the exponent of the final factor.  Equal calls give equal scores.         *)

\* Math.random() in twelfths
Draws == {0, 11}

\* Math.floor(Math.random() * node.weight)
pickOf(r, weight) == (r * weight) \div 12

\* score = 0 with no Math.pow call made
ZeroScore == [terms |-> <<>>, base |-> 0, exp |-> <<0, 1>>]

\* the locals of generate before the loop
StartOfLoop(kws) ==
    [i |-> 0, queue |-> <<>>, sentence |-> <<>>, found |-> <<>>, remaining |-> kws,
     terms |-> <<>>]

\* buildResult, the powers not evaluated
buildWith(L, b) ==
    [sentence |-> L.sentence,
     score    |-> [terms |-> L.terms, base |-> Len(L.found), exp |-> b]]

\* what generate returns, and the Map it leaves
Leaving(returned, g) ==
    [sentence |-> returned.sentence, score |-> returned.score, graph |-> g]

\* the loop of generate from the locals L on; _nodeAt puts an empty node into
\* the Map when the tail has none
RECURSIVE loopWith(_, _, _, _, _, _, _, _)
loopWith(g, ord, a, al, b, kws, L, rs) ==
    IF ~loopContinues(L.i, a.maxLength)
    THEN Leaving([sentence |-> afterLoop(L.sentence, L.terms).sentence, score |-> ZeroScore], g)
    ELSE
    LET tail == toTail(L.queue)
        g1   == nodeAt(g, tail)
        node == MapGet(g1, tail)
    IN
    IF node.weight = 0
    THEN Leaving([sentence |-> afterLoop(L.sentence, L.terms).sentence, score |-> ZeroScore],
                 g1)
    ELSE IF mayStop(L.i, a.length, node) THEN Leaving(buildWith(L, b), g1)
    ELSE
    LET view   == nodeToSample(node, L.remaining, L.found)
        s      == sampleNode(view, pickOf(rs[L.i + 1], view.weight))
        terms1 == IF RatGt(s.chance, <<0, 1>>)
                  THEN Append(L.terms, [chance |-> s.chance, exp |-> al])
                  ELSE L.terms
        m      == recordMatch(s.word, L.found, L.remaining, kws)
    IN
    IF s.word = NoWord
    THEN IF L.i < a.length
         THEN loopWith(g1, ord, a, al, b, kws,
                       [L EXCEPT !.i = L.i + 1,
                                 !.sentence = softBreak(L.sentence, L.queue).sentence,
                                 !.queue = softBreak(L.sentence, L.queue).queue,
                                 !.terms = terms1],
                       rs)
         ELSE Leaving(buildWith([L EXCEPT !.terms = terms1], b), g1)
    ELSE loopWith(g1, ord, a, al, b, kws,
                  [i         |-> L.i + 1,
                   queue     |-> pushQueue(L.queue, s.word, ord),
                   sentence  |-> L.sentence \o s.word,
                   found     |-> m.found,
                   remaining |-> m.remaining,
                   terms     |-> terms1],
                  rs)

\* generate(length, maxLength, keywords, alpha, beta) when the k-th call of
\* Math.random returns rs[k]: what it returns and the Map it leaves
runWith(g, ord, a, rs) ==
    loopWith(g, ord, a, clamp(a.alpha), clamp(a.beta), prepareKeywords(a.keywords),
             StartOfLoop(prepareKeywords(a.keywords)), rs)

\* the returned value of a call that left R
returnedOf(R) == [sentence |-> R.sentence, score |-> R.score]

\* what that call returns
generateWith(g, ord, a, rs) == returnedOf(runWith(g, ord, a, rs))

\* alpha and beta at the ends of the clamping range, 0.0625 and 16.0, and
\* between
ClampExponents == { << <<1, 16>>, <<1, 1>> >>, << <<16, 1>>, <<1, 1>> >>,
                    << <<1, 1>>, <<1, 16>> >>, << <<1, 1>>, <<16, 1>> >> }

\* out of range values: 0, -1.0, 17.0, 1000.0
BelowRange == { <<0, 1>>, <<-1, 1>> }

AboveRange == { <<17, 1>>, <<1000, 1>> }

\* the arrays of words SentenceGraph.analyze is called with under SpecClamp
ClampCorpus == { << <<"a">> >>,
                 << <<"A", "b">> >>,
                 << <<"a">>, <<"B">>, <<"a">> >> }

ClampKeywords == { <<>>, << <<"a">>, <<"b">> >> }

ClampArgs ==
    { [ length    |-> l,
        maxLength |-> m,
        keywords  |-> k,
        alpha     |-> e[1],
        beta      |-> e[2] ] :
      l \in 0..MaxLength, m \in 0..(MaxLength + 1), k \in ClampKeywords,
      e \in ClampExponents }

\* SentenceGraph.analyze before the inspected generate call
ClampLearn ==
    /\ outcome = <<>>
    /\ nAnalyze < MaxLearn
    /\ \E words \in ClampCorpus : DoAnalyze(words)
    /\ UNCHANGED genVars
    /\ UNCHANGED limiterVars
    /\ UNCHANGED outcome

\* a generate call on given random draws
GenerateWith ==
    /\ pc = "idle"
    /\ outcome = <<>>
    /\ \E a \in ClampArgs :
         \E rs \in [1..a.maxLength -> Draws] :
           \E R \in { runWith(graph, order, a, rs) } :
              /\ outcome' = << [args |-> a, draws |-> rs, before |-> graph,
                                result |-> [sentence |-> R.sentence, score |-> R.score]] >>
              /\ graph' = R.graph
    /\ UNCHANGED <<order, nAnalyze, lastWords, finals, snapshot>>
    /\ UNCHANGED genVars
    /\ UNCHANGED limiterVars

\* the caller has taken the result
TakeOutcome ==
    /\ outcome # <<>>
    /\ outcome' = <<>>
    /\ UNCHANGED graphVars
    /\ UNCHANGED genVars
    /\ UNCHANGED limiterVars

NextClamp ==
    \/ ClampLearn
    \/ GenerateWith
    \/ TakeOutcome

SpecClamp == Init /\ [][NextClamp]_vars

----------------------------------------------------------------------------
(* IEEE 754 doubles, for the token counts of a RateLimiter.  A count is     *)
(* never negative.  It is kept as the number the double stands for: the      *)
(* fraction <<n, d>> in lowest terms when d is a power of two and n, d are   *)
(* small, and else <<mantissa, exponent, "b">>, the binary digits of an odd  *)
(* whole number, most significant first, times two to the exponent.  A sum,  *)
(* a difference and a quotient are rounded to 53 significant digits, ties to *)
(* even, as the processor rounds them; between small fractions they are      *)
(* exact whenever the result is a small fraction again.                      *)



\* the significant binary digits of a double
MantissaBits == 53

\* a double is kept as a fraction when numerator and denominator have at most
\* this many binary digits
SmallBits == 15

\* binary digits are added, subtracted and divided this many at a time
Chunk == 8

RECURSIVE Exponent(_)
\* k, for d = 2^k
Exponent(d) == IF d = 1 THEN 0 ELSE 1 + Exponent(d \div 2)

RECURSIVE TwoTo(_)
TwoTo(k) == IF k = 0 THEN 1 ELSE 2 * TwoTo(k - 1)

RECURSIVE Binary(_)
\* the binary digits of a natural number, none for 0
Binary(n) == IF n = 0 THEN <<>> ELSE Append(Binary(n \div 2), n % 2)

RECURSIVE Whole(_)
\* the natural number of binary digits
Whole(bits) ==
    IF bits = <<>> THEN 0
    ELSE 2 * Whole(SubSeq(bits, 1, Len(bits) - 1)) + bits[Len(bits)]

Zeros(k) == [j \in 1..k |-> 0]

\* the binary digits of n, filled up to k digits
Filled(n, k) == Zeros(k - Len(Binary(n))) \o Binary(n)

\* the last k digits, and the digits before them
Low(bits, k) == SubSeq(bits, Max(1, Len(bits) - k + 1), Len(bits))

High(bits, k) == SubSeq(bits, 1, Len(bits) - k)

\* binary digits without their leading zeros
Leading(bits) ==
    IF \A k \in 1..Len(bits) : bits[k] = 0 THEN <<>>
    ELSE SubSeq(bits, CHOOSE k \in 1..Len(bits) :
                          bits[k] = 1 /\ \A h \in 1..(k - 1) : bits[h] = 0, Len(bits))

\* the number of zeros that binary digits, one of them 1, end with
Trailing(bits) ==
    Len(bits) - CHOOSE k \in 1..Len(bits) :
                    bits[k] = 1 /\ \A h \in (k + 1)..Len(bits) : bits[h] = 0

RECURSIVE PowerOfTwo(_)
PowerOfTwo(d) == d = 1 \/ (d % 2 = 0 /\ PowerOfTwo(d \div 2))

\* whether the denominator of a fraction is a power of two
IsDyadic(x) == PowerOfTwo(x[2])

\* numerator and denominator of a double that is kept as a fraction are at
\* most this
Small == TwoTo(SmallBits)

\* whether a fraction is kept as a fraction
IsSmall(x) == x[1] < Small /\ x[2] <= Small

\* the double m * 2^e, for at most 53 digits m that begin and end with 1
Packed(m, e) ==
    IF e >= 0 /\ Len(m) + e <= SmallBits THEN <<Whole(m) * TwoTo(e), 1>>
    ELSE IF e < 0 /\ Len(m) <= SmallBits /\ -e <= SmallBits THEN <<Whole(m), TwoTo(-e)>>
    ELSE <<m, e, "b">>

\* the double bits * 2^q, for digits that end with zeros many zeros
Shortened(bits, q, zeros) == Packed(SubSeq(bits, 1, Len(bits) - zeros), q + zeros)

\* the double bits * 2^q, for at most 53 digits that do not begin with 0
Exactly(bits, q) ==
    IF bits = <<>> THEN <<0, 1>> ELSE Shortened(bits, q, Trailing(bits))

\* the double of a whole number below 2^53
DblInt(n) == IF n < Small THEN <<n, 1>> ELSE Exactly(Binary(n), 0)

\* the place of the last 0 among binary digits that are not all 1
LastZero(bits) ==
    CHOOSE k \in 1..Len(bits) : bits[k] = 0 /\ \A h \in (k + 1)..Len(bits) : bits[h] = 1

\* the binary digits of the next whole number
Successor(bits) ==
    IF \A k \in 1..Len(bits) : bits[k] = 1 THEN << 1 >> \o Zeros(Len(bits))
    ELSE SubSeq(bits, 1, LastZero(bits) - 1) \o << 1 >> \o Zeros(Len(bits) - LastZero(bits))

\* whether more than 53 digits are rounded up: what is cut off is more than
\* half a unit of the last digit kept, or half a unit and that digit is odd
RoundsUp(bits) ==
    /\ bits[MantissaBits + 1] = 1
    /\ \/ bits[MantissaBits] = 1
       \/ \E k \in (MantissaBits + 2)..Len(bits) : bits[k] = 1

\* the digits kept of digits that do not begin with 0
Kept(bits) ==
    IF Len(bits) <= MantissaBits THEN bits
    ELSE IF RoundsUp(bits) THEN Successor(SubSeq(bits, 1, MantissaBits))
    ELSE SubSeq(bits, 1, MantissaBits)

\* the double nearest to bits * 2^q, ties to even, for digits that do not
\* begin with 0
Rounded(bits, q) == Exactly(Kept(bits), q + Max(0, Len(bits) - MantissaBits))

\* a double as <<digits, q>>: the whole number of the digits times 2^q
Bits(x) == IF Len(x) = 2 THEN << Binary(x[1]), -Exponent(x[2]) >> ELSE << x[1], x[2] >>

\* the digits of <<digits, q>> counted in units of 2^unit, filled up to n digits
Scaled(b, unit, n) == Zeros(n - (Len(b[1]) + b[2] - unit)) \o b[1] \o Zeros(b[2] - unit)

\* the digits either of two doubles needs in units of 2^unit
Width(a, b, unit) == Max(Len(a[1]) + a[2], Len(b[1]) + b[2]) - unit

\* two doubles as whole numbers of as many digits in units of 2^unit, and the
\* unit
AlignedAt(a, b, unit) ==
    << Scaled(a, unit, Width(a, b, unit)), Scaled(b, unit, Width(a, b, unit)), unit >>

\* in the largest unit both are whole numbers of
Aligned(a, b) == AlignedAt(a, b, Min(a[2], b[2]))

RECURSIVE AddBits(_, _, _, _)
\* the last k digits of a and b give s: its last k digits, after the digits
\* the rest gives with what s carries
AddChunk(a, b, sign, k, s) ==
    AddBits(High(a, k), High(b, k), sign, s \div TwoTo(k)) \o Filled(s % TwoTo(k), k)

\* the sum (sign 1) or the difference (sign -1) of two whole numbers of as
\* many digits, the first the larger, Chunk digits at a time; the carry is 1, 0
\* or, for a digit borrowed, -1
AddBits(a, b, sign, carry) ==
    IF a = <<>> THEN << Max(carry, 0) >>
    ELSE AddChunk(a, b, sign, Min(Len(a), Chunk),
                  Whole(Low(a, Min(Len(a), Chunk)))
                    + sign * Whole(Low(b, Min(Len(a), Chunk))) + carry)

\* p[1] >= p[2], for whole numbers of as many digits
GeBits(p) ==
    \/ p[1] = p[2]
    \/ \E k \in 1..Len(p[1]) : p[1][k] > p[2][k] /\ \A h \in 1..(k - 1) : p[1][h] = p[2][h]

\* x >= y
DblGe(x, y) ==
    IF Len(x) = 2 /\ Len(y) = 2 THEN RatGe(x, y) ELSE GeBits(Aligned(Bits(x), Bits(y)))

\* the sum or the difference of p[1] and p[2] in units of 2^p[3], rounded
SumOf(p, sign) == Rounded(Leading(AddBits(p[1], p[2], sign, 0)), p[3])

\* the sum or the difference of x and y, which is exact when they are
\* fractions and it is a small fraction
Summed(exact, x, y, sign) ==
    IF exact # <<>> /\ IsSmall(exact[1]) THEN exact[1]
    ELSE SumOf(Aligned(Bits(x), Bits(y)), sign)

\* x + y (sign 1) and x - y (sign -1), for x >= y
DblSum(x, y, sign) ==
    Summed(IF Len(x) = 2 /\ Len(y) = 2 THEN << RatAdd(x, << sign * y[1], y[2] >>) >> ELSE <<>>,
           x, y, sign)

\* x + y
DblAdd(x, y) == DblSum(x, y, 1)

\* x - y, for x >= y
DblSub(x, y) == DblSum(x, y, -1)

\* digits, and a last digit 1 for a remainder
Sticky(bits, r) == IF r = 0 THEN bits ELSE Append(bits, 1)

RECURSIVE Fraction(_, _, _, _)
\* long division by d, Chunk digits at a time: the digits found, whole of
\* them before the point, and the remainder r.  Digits beyond those a double
\* keeps are enough to round, with a last digit for what remains
Fraction(bits, whole, r, d) ==
    IF r = 0 \/ Len(Leading(bits)) > MantissaBits
    THEN Rounded(Leading(Sticky(bits, r)), whole - Len(Sticky(bits, r)))
    ELSE Fraction(bits \o Filled((TwoTo(Chunk) * r) \div d, Chunk), whole,
                  (TwoTo(Chunk) * r) % d, d)

\* the double nearest to the fraction x in lowest terms, which is n / d
Nearest(x, n, d) ==
    IF IsDyadic(x) /\ IsSmall(x) THEN x
    ELSE Fraction(Binary(n \div d), Len(Binary(n \div d)), n % d, d)

\* n / d, for whole numbers n >= 0 and d > 0
Quotient(n, d) == Nearest(Rat(n, d), n, d)

\* the double of a number written as the fraction x >= 0
DblOf(x) == Quotient(x[1], x[2])

\* x / y, for fractions x >= 0 and y > 0 that are doubles
DblDiv(x, y) == Quotient(x[1] * y[2], x[2] * y[1])

\* Math.max and Math.min
DblMax(x, y) == IF DblGe(x, y) THEN x ELSE y

DblMin(x, y) == IF DblGe(x, y) THEN y ELSE x

\* x > y
DblGt(x, y) == ~DblGe(y, x)

----------------------------------------------------------------------------
(* RateLimiter: constructor arguments are fractions, token counts are        *)
(* doubles, times are whole milliseconds                                     *)

\* x < 1.0
BelowOne(x) == RatGt(<<1, 1>>, x)

\* Math.floor of a rational that is not negative
floor(x) == x[1] \div x[2]

\* whether the constructor accepts its arguments; initialCount is <<>> when
\* it is not passed
validArguments(capacity, fillTime, initialCount) ==
    /\ ~BelowOne(capacity)
    /\ ~BelowOne(fillTime)
    /\ initialCount # <<>> => ~RatGt(<<0, 1>>, initialCount[1])

\* the object the constructor builds at time t
RateLimiter(capacity, fillTime, initialCount, t) ==
    [capacity  |-> floor(capacity),
     fillTime  |-> floor(fillTime),
     count     |-> IF initialCount # <<>>
                   THEN DblMax(<<0, 1>>, DblMin(DblOf(capacity), DblOf(initialCount[1])))
                   ELSE DblOf(capacity),
     lastAdded |-> t]

\* _addTokens at time t: dt * capacity is a whole number, which the division
\* by fillTime rounds
addTokens(r, t) ==
    [r EXCEPT !.count = IF t - r.lastAdded > 0
                        THEN DblMax(<<0, 1>>,
                                    DblMin(DblInt(r.capacity),
                                           DblAdd(r.count,
                                                  Quotient((t - r.lastAdded) * r.capacity,
                                                           r.fillTime))))
                        ELSE r.count,
              !.lastAdded = t]

removeTokensPartly(r, negative, size) ==
    IF negative \/ DblGe(r.count, size)
    THEN [limiter  |-> [r EXCEPT !.count = DblSum(r.count, size, IF negative THEN 1 ELSE -1)],
          returned |-> TRUE]
    ELSE [limiter |-> [r EXCEPT !.count = <<0, 1>>], returned |-> FALSE]

tryRemoveTokensPartly(r, n, t) ==
    removeTokensPartly(addTokens(r, t), n[1] < 0, DblOf(<< Max(n[1], -n[1]), n[2] >>))

\* tryRemoveTokens after _addTokens: this._count >= count and this._count -=
\* count, for a count passed that is negative or not and has the size given
removeTokens(r, negative, size) ==
    IF negative \/ DblGe(r.count, size)
    THEN [limiter  |-> [r EXCEPT !.count = DblSum(r.count, size, IF negative THEN 1 ELSE -1)],
          returned |-> TRUE]
    ELSE [limiter |-> r, returned |-> FALSE]

\* tryRemoveTokens(n) at time t: the object afterwards and the value returned
tryRemoveTokens(r, n, t) ==
    removeTokens(addTokens(r, t), n[1] < 0, DblOf(<< Max(n[1], -n[1]), n[2] >>))

\* calls made on one RateLimiter under SpecLimiter
MaxLimiterCalls == 3

\* capacity: 0.5 (rejected), 1, 2, 2.5
CapacityArgs == { <<1, 2>>, <<1, 1>>, <<2, 1>>, <<5, 2>> }

\* fillTime in milliseconds: 0.5 (rejected), 2, 3.5
FillTimeArgs == { <<1, 2>>, <<2, 1>>, <<7, 2>> }

\* initialCount: not passed, -1 (rejected), 0, 0.5, 5
InitialCountArgs == { <<>>, << <<-1, 1>> >>, << <<0, 1>> >>, << <<1, 2>> >>, << <<5, 1>> >> }

\* the argument of tryRemoveTokens: 0, 0.5, 1, 2
RemoveArgs == { <<0, 1>>, <<1, 2>>, <<1, 1>>, <<2, 1>> }

\* new RateLimiter(capacity, fillTime, initialCount), which throws on invalid
\* arguments
NewRateLimiter ==
    /\ limiter = <<>>
    /\ \E capacity \in CapacityArgs, fillTime \in FillTimeArgs,
          initialCount \in InitialCountArgs :
          /\ limiter' = IF validArguments(capacity, fillTime, initialCount)
                        THEN << RateLimiter(capacity, fillTime, initialCount, now) >>
                        ELSE <<>>
          /\ built' = IF validArguments(capacity, fillTime, initialCount)
                      THEN << [capacity |-> capacity, fillTime |-> fillTime,
                               initialCount |-> initialCount] >>
                      ELSE <<>>
          /\ lastCall' = << [op |-> "new", at |-> now, nth |-> 0,
                             threw |-> ~validArguments(capacity, fillTime, initialCount)] >>
    /\ UNCHANGED <<now, options, accepted, users, requests, outcome>>
    /\ UNCHANGED botVars
    /\ UNCHANGED graphVars
    /\ UNCHANGED genVars

\* the clock is set to another time, later or earlier
ClockChange ==
    /\ \E t \in 0..MaxTime : t # now /\ now' = t
    /\ UNCHANGED <<limiter, built, lastCall, options, accepted, users, requests, outcome>>
    /\ UNCHANGED botVars
    /\ UNCHANGED graphVars
    /\ UNCHANGED genVars

\* get count
ReadCount ==
    /\ limiter # <<>>
    /\ lastCall[1].nth < MaxLimiterCalls
    /\ \E r \in { addTokens(limiter[1], now) } :
          /\ limiter' = << r >>
          /\ lastCall' = << [op |-> "count", before |-> limiter[1], at |-> now,
                             nth |-> lastCall[1].nth + 1, returned |-> r.count] >>
    /\ UNCHANGED <<now, built, options, accepted, users, requests, outcome>>
    /\ UNCHANGED botVars
    /\ UNCHANGED graphVars
    /\ UNCHANGED genVars

\* tryRemoveTokens(n)
TryRemoveTokens ==
    /\ limiter # <<>>
    /\ lastCall[1].nth < MaxLimiterCalls
    /\ \E n \in RemoveArgs :
          \E R \in { tryRemoveTokens(limiter[1], n, now) } :
              /\ limiter' = << R.limiter >>
              /\ lastCall' = << [op |-> "remove", n |-> n, before |-> limiter[1], at |-> now,
                                 nth |-> lastCall[1].nth + 1, returned |-> R.returned] >>
    /\ UNCHANGED <<now, built, options, accepted, users, requests, outcome>>
    /\ UNCHANGED botVars
    /\ UNCHANGED graphVars
    /\ UNCHANGED genVars

\* the RateLimiter object is dropped
Discard ==
    /\ limiter # <<>>
    /\ limiter' = <<>>
    /\ built' = <<>>
    /\ lastCall' = <<>>
    /\ UNCHANGED <<now, options, accepted, users, requests, outcome>>
    /\ UNCHANGED botVars
    /\ UNCHANGED graphVars
    /\ UNCHANGED genVars

NextLimiter ==
    \/ NewRateLimiter
    \/ ClockChange
    \/ ReadCount
    \/ TryRemoveTokens
    \/ Discard

SpecLimiter == Init /\ [][NextLimiter]_vars

----------------------------------------------------------------------------
(* The per-minute limits of DeerBot and WikiGenerator *)

\* the fill time of the limiters of DeerBot and WikiGenerator, in milliseconds
MinuteMs == 60000

\* values of the options maxUserRequestsPerMinute and maxRequestsPerMinute
PerMinuteArgs == {1, 2}

\* the clock advances by half a minute
AdvanceArgs == {MinuteMs \div 2}

\* the times of seq that are later than t - MinuteMs
Recent(seq, t) == SelectSeq(seq, LAMBDA x : x > t - MinuteMs)

\* an entry that is made anew at every command
getUserEntryAnew(map, name, t) ==
    RateLimiter(<<options[1].maxUserRequestsPerMinute, 1>>, <<MinuteMs, 1>>, <<>>, t)

\* _getUserEntry: the entry's rateLimiter, made when the user has none yet
getUserEntry(map, name, t) ==
    IF map[name] # <<>> THEN map[name][1]
    ELSE RateLimiter(<<options[1].maxUserRequestsPerMinute, 1>>, <<MinuteMs, 1>>, <<>>, t)


----------------------------------------------------------------------------
(* WikiGenerator: the text of an article *)

\* the characters the regular expressions of wiki-generator.js tell apart
Letters == {"a", "b", "A", "B"}

Digits == {"0", "1", "2", "3", "4", "5", "6", "7", "8", "9"}

Spaces == {" ", "\n", "\t"}

\* String.prototype.split(sep), sep one character
RECURSIVE split(_, _)
split(s, sep) ==
    IF \A k \in 1..Len(s) : s[k] # sep THEN << s >>
    ELSE LET k == CHOOSE j \in 1..Len(s) : s[j] = sep /\ \A h \in 1..(j - 1) : s[h] # sep
         IN  << SubSeq(s, 1, k - 1) >> \o split(SubSeq(s, k + 1, Len(s)), sep)

\* String.prototype.trim
trim(s) ==
    IF \A k \in 1..Len(s) : s[k] \in Spaces THEN <<>>
    ELSE LET a == CHOOSE j \in 1..Len(s) : s[j] \notin Spaces /\ \A h \in 1..(j - 1) : s[h] \in Spaces
             b == CHOOSE j \in 1..Len(s) : s[j] \notin Spaces /\ \A h \in (j + 1)..Len(s) : s[h] \in Spaces
         IN  SubSeq(s, a, b)

\* String.prototype.lastIndexOf(c) + 1, c one character
lastIndexOf(s, c) ==
    IF \A k \in 1..Len(s) : s[k] # c THEN 0
    ELSE CHOOSE j \in 1..Len(s) : s[j] = c /\ \A h \in (j + 1)..Len(s) : s[h] # c

\* String(n) for a natural number n
RECURSIVE String(_)
String(n) ==
    LET digit == << "0", "1", "2", "3", "4", "5", "6", "7", "8", "9" >>[(n % 10) + 1]
    IN  IF n < 10 THEN << digit >> ELSE Append(String(n \div 10), digit)

\* the digits of a numeric literal, by their value, in either case
LowerDigits == << "0", "1", "2", "3", "4", "5", "6", "7", "8", "9",
                  "a", "b", "c", "d", "e", "f" >>

UpperDigits == << "0", "1", "2", "3", "4", "5", "6", "7", "8", "9",
                  "A", "B", "C", "D", "E", "F" >>

\* the value of the character c as a digit of the base, -1 when it is none
DigitOf(c, base) ==
    IF \E k \in 1..base : c \in {LowerDigits[k], UpperDigits[k]}
    THEN (CHOOSE k \in 1..base : c \in {LowerDigits[k], UpperDigits[k]}) - 1
    ELSE -1

\* whether s is one digit of the base or more
AllDigits(s, base) == s # <<>> /\ \A k \in 1..Len(s) : DigitOf(s[k], base) >= 0

RECURSIVE NumberOf(_, _)
\* the whole number written with digits of the base
NumberOf(s, base) ==
    IF s = <<>> THEN 0
    ELSE base * NumberOf(SubSeq(s, 1, Len(s) - 1), base) + DigitOf(s[Len(s)], base)

RECURSIVE TenTo(_)
TenTo(k) == IF k = 0 THEN 1 ELSE 10 * TenTo(k - 1)

\* a number that is not NaN: a fraction, <<1, 0>> for Infinity and <<-1, 0>>
\* for -Infinity
Negated(x) == << -x[1], x[2] >>

IsFinite(x) == x[2] # 0

\* the place of the first e or E of a literal, the place after its end when
\* it has none
markOf(u) ==
    IF \E k \in 1..Len(u) : u[k] \in {"e", "E"}
    THEN CHOOSE k \in 1..Len(u) :
            u[k] \in {"e", "E"} /\ \A h \in 1..(k - 1) : u[h] \notin {"e", "E"}
    ELSE Len(u) + 1

\* the digits after the point of a mantissa with at most one point
placesOf(mantissa) ==
    IF \E k \in 1..Len(mantissa) : mantissa[k] = "."
    THEN Len(mantissa) - CHOOSE k \in 1..Len(mantissa) : mantissa[k] = "."
    ELSE 0

\* n times ten to the power tens
timesTenTo(n, tens) == IF tens >= 0 THEN << n * TenTo(tens), 1 >> ELSE Rat(n, TenTo(-tens))

\* the number of a mantissa and, when the literal is marked with e or E, of
\* the digits of its exponent, which is negative or not
decimalValue(mantissa, marked, negative, power) ==
    IF /\ Cardinality({ k \in 1..Len(mantissa) : mantissa[k] = "." }) <= 1
       /\ AllDigits(SelectSeq(mantissa, LAMBDA c : c # "."), 10)
       /\ marked => AllDigits(power, 10)
    THEN << timesTenTo(NumberOf(SelectSeq(mantissa, LAMBDA c : c # "."), 10),
                       (IF ~marked THEN 0
                        ELSE IF negative THEN -NumberOf(power, 10)
                        ELSE NumberOf(power, 10)) - placesOf(mantissa)) >>
    ELSE <<>>

\* the number of a mantissa and an exponent, which may have a sign
decimalParts(mantissa, marked, exponent) ==
    decimalValue(mantissa, marked, exponent # <<>> /\ exponent[1] = "-",
                 IF exponent # <<>> /\ exponent[1] \in {"+", "-"} THEN Tail(exponent)
                 ELSE exponent)

\* an unsigned decimal literal: Infinity, or digits with at most one point
\* among them and, after e or E, an exponent that may have a sign.  <<>> when
\* u is no such literal
decimalLiteral(u) ==
    IF u = << "I", "n", "f", "i", "n", "i", "t", "y" >> THEN << <<1, 0>> >>
    ELSE decimalParts(SubSeq(u, 1, markOf(u) - 1), markOf(u) <= Len(u),
                      SubSeq(u, markOf(u) + 1, Len(u)))

\* the base the prefix of a literal tells
baseOf(t) ==
    IF Len(t) < 2 \/ t[1] # "0" THEN 10
    ELSE IF t[2] \in {"x", "X"} THEN 16
    ELSE IF t[2] \in {"o", "O"} THEN 8
    ELSE IF t[2] \in {"b", "B"} THEN 2
    ELSE 10

\* a decimal literal under its sign
signedLiteral(negative, literal) ==
    IF literal = <<>> THEN <<>>
    ELSE IF negative THEN << Negated(literal[1]) >>
    ELSE literal

\* the number of a text without white space around it
numberOf(t) ==
    IF t = <<>> THEN << <<0, 1>> >>
    ELSE IF baseOf(t) # 10
    THEN IF AllDigits(SubSeq(t, 3, Len(t)), baseOf(t))
         THEN << << NumberOf(SubSeq(t, 3, Len(t)), baseOf(t)), 1 >> >>
         ELSE <<>>
    ELSE signedLiteral(t[1] = "-", decimalLiteral(IF t[1] \in {"+", "-"} THEN Tail(t) ELSE t))

\* Number(value), the conversion of a string to a number: <<>> for NaN, else
\* <<x>>.  White space around the text is dropped; the empty text is 0; a
\* literal with the prefix 0x, 0o or 0b has no sign; a decimal literal may
\* have one.  Numbers are exact: the rounding of a long literal to a double
\* is left out, and a literal beyond the integers of the model is not
\* evaluated
toNumber(s) == numberOf(trim(s))

\* x < 1 for the number x, which NaN is not
belowOne(number) == number # <<>> /\ RatGt(<<1, 1>>, number[1])

\* trimmed < 1: the string is converted to a number
lessThanOne(s) == belowOne(toNumber(s))

\* str.replace(/\s+/g, ' ')
RECURSIVE replaceSpaces(_)
replaceSpaces(s) ==
    IF s = <<>> THEN <<>>
    ELSE IF Head(s) \notin Spaces THEN << Head(s) >> \o replaceSpaces(Tail(s))
    ELSE IF Len(s) > 1 /\ s[2] \in Spaces THEN replaceSpaces(Tail(s))
    ELSE << " " >> \o replaceSpaces(Tail(s))

\* str.replace(/[\(\[{]\s/, (match, p1) => p1): the pattern has no group, so the
\* callback's second argument is the offset of the match
replaceOpening(s) ==
    LET at == {k \in 1..(Len(s) - 1) : s[k] \in {"(", "[", "{"} /\ s[k + 1] \in Spaces}
    IN  IF at = {} THEN s
        ELSE LET k == CHOOSE j \in at : \A h \in at : j <= h
             IN  SubSeq(s, 1, k - 1) \o String(k - 1) \o SubSeq(s, k + 2, Len(s))

\* str.replace(/\s([,;:\)\]}])/, (match, p1) => p1)
replaceClosing(s) ==
    LET at == {k \in 1..(Len(s) - 1) :
                  s[k] \in Spaces /\ s[k + 1] \in {",", ";", ":", ")", "]", "}"}}
    IN  IF at = {} THEN s
        ELSE LET k == CHOOSE j \in at : \A h \in at : j <= h
             IN  SubSeq(s, 1, k - 1) \o SubSeq(s, k + 1, Len(s))

completeParens(str, left, right) ==
    IF lastIndexOf(str, left) <= lastIndexOf(str, right) THEN str ELSE Append(str, right)

\* _formatText, for one line of the text: <<>> when the line is skipped
formatSegment(segment, minInputLength) ==
    LET trimmed == trim(segment)
        length  == lastIndexOf(trimmed, ".")
        str     == replaceClosing(replaceOpening(replaceSpaces(SubSeq(trimmed, 1, length))))
    IN  IF lessThanOne(trimmed) THEN <<>>
        ELSE IF trimmed[1] = LowerChar(trimmed[1]) THEN <<>>
        ELSE IF length < minInputLength THEN <<>>
        ELSE << completeParens(completeParens(completeParens(str, "(", ")"), "[", "]"),
                               "{", "}") >>

\* _formatText
formatText(text, minInputLength) ==
    LET segments == split(text, "\n")
        RECURSIVE each(_)
        each(k) == IF k > Len(segments) THEN <<>>
                   ELSE formatSegment(segments[k], minInputLength) \o each(k + 1)
    IN  each(1)

\* parseWords: runs of letters, of digits and of white space, and single
\* characters of any other kind
RECURSIVE parseWords(_)
parseWords(text) ==
    IF text = <<>> THEN <<>>
    ELSE LET class == IF Head(text) \in Letters THEN Letters
                      ELSE IF Head(text) \in Digits THEN Digits
                      ELSE IF Head(text) \in Spaces THEN Spaces
                      ELSE {}
             stops == {k \in 2..Len(text) : text[k] \notin class}
             n     == IF stops = {} THEN Len(text)
                      ELSE (CHOOSE j \in stops : \A h \in stops : j <= h) - 1
         IN  << SubSeq(text, 1, n) >> \o parseWords(SubSeq(text, n + 1, Len(text)))

----------------------------------------------------------------------------
(* WikiGenerator.analyze, for the one language the bot is configured with.  *)
(* A WikiGenerator is a record of its _options, its _library entry (<<>>    *)
(* or <<e>>), its _graphs entry (<<>> or <<g>>) and, as history, the final  *)
(* tails of the SentenceGraph.analyze calls made on its graph.  A Set is    *)
(* the sequence of its members in insertion order.                          *)

\* Set.prototype.add
SetAdd(set, x) == IF indexOf(set, x) # 0 THEN set ELSE Append(set, x)

\* what a call returns or throws
Returned(value) == << "returns", value >>
Threw(message) == << "throws", message >>

\* the generator with an entry of the library for the language
withLibrary(gen) ==
    [gen EXCEPT !.library = IF gen.library # <<>> THEN gen.library
                            ELSE << [queries |-> <<>>, analyzed |-> <<>>] >>]

\* a call that asks for the article whether or not the title is among the queries
analyzeAgainWith(gen1, lim, title, call) ==
    IF includes(title, << "|" >>)
    THEN [generator |-> gen1, limiter |-> lim,
          returned |-> << Threw("Illegal characters in the parameters.") >>]
    ELSE IF ~call.returned
    THEN [generator |-> gen1, limiter |-> call.limiter,
          returned |-> << Threw("Request rate limit exceeded.") >>]
    ELSE [generator |-> gen1, limiter |-> call.limiter, returned |-> <<>>]

analyzeCalledAgain(gen, lim, title, t) ==
    analyzeAgainWith(withLibrary(gen), lim, title, tryRemoveTokens(lim, <<1, 1>>, t))

\* analyze from the check of the queries to the request, on a generator that
\* has the entry of the library: call is what tryRemoveTokens(1) gives when
\* the call comes to it
analyzeWith(gen1, lim, title, call) ==
    IF indexOf(gen1.library[1].queries, title) # 0
    THEN [generator |-> gen1, limiter |-> lim, returned |-> << Returned(-1) >>]
    ELSE IF includes(title, << "|" >>)
    THEN [generator |-> gen1, limiter |-> lim,
          returned |-> << Threw("Illegal characters in the parameters.") >>]
    ELSE IF ~call.returned
    THEN [generator |-> gen1, limiter |-> call.limiter,
          returned |-> << Threw("Request rate limit exceeded.") >>]
    ELSE [generator |-> gen1, limiter |-> call.limiter, returned |-> <<>>]

\* analyze, lines 90 to 112: up to the request.  returned is <<>> when the call
\* goes on to wait for the response
analyzeCalled(gen, lim, title, t) ==
    analyzeWith(withLibrary(gen), lim, title, tryRemoveTokens(lim, <<1, 1>>, t))

\* analyze, lines 113 to 116: the response has arrived.  <<>> when the call goes
\* on to wait for the body
analyzeFetched(res) ==
    IF res.settled = "rejected" THEN << Threw("request failed") >>
    ELSE IF ~res.ok THEN << Threw("Failed to fetch:") >>
    ELSE <<>>

\* the loop over the pages, lines 128 to 140, from page k on
RECURSIVE analyzePages(_, _, _, _, _)
analyzePages(pages, k, analyzed, segments, minInputLength) ==
    IF k > Len(pages) THEN [analyzed |-> analyzed, segments |-> segments]
    ELSE LET page == pages[k] IN
         IF page.title = <<>> \/ indexOf(analyzed, page.title[1]) # 0
         THEN analyzePages(pages, k + 1, analyzed, segments, minInputLength)
         ELSE IF page.extract = <<>>
         THEN analyzePages(pages, k + 1, Append(analyzed, page.title[1]), segments,
                           minInputLength)
         ELSE analyzePages(pages, k + 1, Append(analyzed, page.title[1]),
                           segments \o formatText(page.extract[1], minInputLength),
                           minInputLength)

\* a loop over the segments that is cut short: the last word of a segment is
\* not yet in the model
RECURSIVE analyzeSegmentsPartly(_, _, _, _, _)
analyzeSegmentsPartly(segments, k, model, finished, count) ==
    IF k > Len(segments) THEN [model |-> model, finals |-> finished, count |-> count]
    ELSE LET words == parseWords(segments[k])
             ord   == model.order
         IN  analyzeSegmentsPartly(segments, k + 1,
                 [model EXCEPT !.graph = analyze(model.graph, ord,
                                                 SubSeq(words, 1, Len(words) - 1))],
                 IF Len(words) = 0 THEN finished
                 ELSE Append(finished,
                        toTail(SubSeq(words, Max(1, Len(words) - ord + 1), Len(words)))),
                 count + Len(words))

\* the loop over the segments, lines 148 to 154, from segment k on
RECURSIVE analyzeSegments(_, _, _, _, _)
analyzeSegments(segments, k, model, finished, count) ==
    IF k > Len(segments) THEN [model |-> model, finals |-> finished, count |-> count]
    ELSE LET words == parseWords(segments[k])
             ord   == model.order
         IN  analyzeSegments(segments, k + 1,
                 [model EXCEPT !.graph = analyze(model.graph, ord, words)],
                 IF Len(words) = 0 THEN finished
                 ELSE Append(finished,
                        toTail(SubSeq(words, Max(1, Len(words) - ord + 1), Len(words)))),
                 count + Len(words))

\* analyze, lines 117 to 157: the body has arrived
analyzeParsed(gen, title, data) ==
    IF data.settled = "rejected" THEN [generator |-> gen, returned |-> Threw("invalid json")]
    ELSE IF data.query = <<>>
    THEN [generator |-> gen, returned |-> Threw("Missing query data.")]
    ELSE IF data.query[1].pages = <<>>
    THEN [generator |-> gen, returned |-> Threw("Missing page data.")]
    ELSE
    LET entry    == gen.library[1]
        read     == analyzePages(data.query[1].pages[1], 1, entry.analyzed, <<>>,
                                 gen.options.minInputLength)
        model    == IF gen.graphs # <<>> THEN gen.graphs[1]
                    ELSE constructor(2 * gen.options.sentenceGraphOrder, <<>>)
        learned  == analyzeSegments(read.segments, 1, model, gen.finals, 0)
    IN  [generator |-> [gen EXCEPT !.library = << [queries  |-> SetAdd(entry.queries, title),
                                                   analyzed |-> read.analyzed] >>,
                                   !.graphs  = << learned.model >>,
                                   !.finals  = learned.finals],
         returned  |-> Returned(learned.count)]

\* score after the loop: the sum of Math.pow(1.0 / chance, alpha) over the
\* sampled chances
RECURSIVE sumOf(_)
sumOf(terms) ==
    IF terms = <<>> THEN <<0, 1>>
    ELSE RatAdd(pow(RatInv(Head(terms).chance), Head(terms).exp), sumOf(Tail(terms)))

\* the number a score of generateWith stands for: score * Math.pow(found.length, beta)
scoreOf(sc) == RatMul(sumOf(sc.terms), pow(<<sc.base, 1>>, sc.exp))

\* the for loop of WikiGenerator.generate from attempt k on; draws[k] holds the
\* values Math.random returns during attempt k; gives the candidate and the
\* model that are left
RECURSIVE generateFrom(_, _, _, _, _)
RECURSIVE attempted(_, _, _, _, _, _)
generateFrom(model, a, draws, k, cand) ==
    IF k > a.samples THEN [candidate |-> cand, model |-> model]
    ELSE attempted(model, a, draws, k, cand, runWith(model.graph, model.order, a, draws[k]))

\* the body of the loop once graph.generate has left res: the result is
\* compared with the candidate
attempted(model, a, draws, k, cand, res) ==
    LET eval == [sentence |-> res.sentence,
                 score    |-> IF res.score = ZeroScore THEN <<0, 1>> ELSE scoreOf(res.score)]
    IN  generateFrom([model EXCEPT !.graph = res.graph], a, draws, k + 1,
                     IF resultBetter(eval, cand) THEN eval ELSE cand)

\* the generator and the returned value when the loop has left made
generated(gen, made) ==
    [generator |-> [gen EXCEPT !.graphs = << made.model >>],
     returned  |-> Returned(made.candidate)]

\* WikiGenerator.generate: what it returns or throws, and the generator it leaves
generate(gen, a, draws) ==
    IF gen.graphs = <<>> THEN [generator |-> gen, returned |-> Threw("Unknown language:")]
    ELSE generated(gen, generateFrom(gen.graphs[1], a, draws, 1, EmptyResult))

----------------------------------------------------------------------------
(* DeerBot: the command handler as a function of the bot's state.  The      *)
(* state is the record of _awake, _users, _options, _wikiGenerator (with    *)
(* its request limiter) and the files; a handler returns the state it       *)
(* leaves, the texts it passed to respond, the analyze call it made (which  *)
(* waits for its response when returned is <<>>), whether it threw, and, as *)
(* history, what it called and what tryRemoveTokens returned.               *)

\* config.wiki.languages
Languages == { <<"a", "b">> }

\* config.responses: the canned responses by command
Responses == [hello |-> << "bleat", "grunt" >>, quiet |-> <<>>]

\* a text passed to respond: its fixed part and the part put into it
Reply(text, about) == [text |-> text, about |-> about]

errorText(message, about) == Reply("*blerror* - " \o message, about)

\* what a handler returns that changed nothing and called nothing
Handled(S) ==
    [state |-> S, replies |-> <<>>, called |-> <<>>, threw |-> FALSE, did |-> {},
     removed |-> <<>>]

Responding(S, reply) == [Handled(S) EXCEPT !.replies = << reply >>]

\* WikiGenerator.toDataObject
wikiToDataObject(gen) ==
    [options     |-> gen.options,
     libraryData |-> [k \in 1..Len(gen.library) |->
                        [queries  |-> gen.library[k].queries,
                         analyzed |-> gen.library[k].analyzed]],
     graphsData  |-> [k \in 1..Len(gen.graphs) |->
                        toDataObject(gen.graphs[k].order, gen.graphs[k].graph)]]

\* WikiGenerator.newFromDataObject: the generator, without its request limiter
wikiFromDataObject(data) ==
    [options |-> data.options,
     library |-> [k \in 1..Len(data.libraryData) |->
                    [queries  |-> dedup(data.libraryData[k].queries),
                     analyzed |-> dedup(data.libraryData[k].analyzed)]],
     graphs  |-> [k \in 1..Len(data.graphsData) |-> newFromDataObject(data.graphsData[k])]]

\* the request limiter a WikiGenerator is constructed with at time t
requestLimiter(opts, t) ==
    RateLimiter(<<opts.maxRequestsPerMinute, 1>>, <<MinuteMs, 1>>, <<>>, t)

\* _processIOCommand once the bot is known to sleep; io tells whether the file
\* system fails
accessFile(S, cmd, cargs, io, t) ==
    IF Len(cargs) < 1 THEN Responding(S, errorText("No file name specified.", <<>>))
    ELSE IF Len(cargs) > 1 THEN Responding(S, errorText("Invalid number of arguments.", <<>>))
    ELSE
    LET name   == cargs[1]
        failed == [Responding(S, errorText("Couldn't access file ", name))
                     EXCEPT !.did = {IF cmd = "write" THEN "toFile" ELSE "fromFile"}]
        held   == IF name \in DOMAIN S.disk THEN S.disk[name] ELSE <<>>
    IN  IF includes(name, << "." >>) THEN failed
        ELSE IF cmd = "write"
        THEN IF io = "fails" THEN failed
             ELSE [Responding([S EXCEPT !.disk =
                                  [n \in DOMAIN S.disk \cup {name} |->
                                      IF n = name
                                      THEN << [data   |-> wikiToDataObject(S.generator),
                                               finals |-> S.generator.finals] >>
                                      ELSE S.disk[n]]],
                              Reply("*recorder sounds*", <<>>))
                     EXCEPT !.did = {"toFile", "written"}]
        ELSE IF io = "fails" \/ held = <<>> THEN failed
             ELSE [Responding([S EXCEPT
                                 !.generator = [options |-> wikiFromDataObject(held[1].data).options,
                                                library |-> wikiFromDataObject(held[1].data).library,
                                                graphs  |-> wikiFromDataObject(held[1].data).graphs,
                                                finals  |-> held[1].finals],
                                 !.limiter = requestLimiter(held[1].data.options, t)],
                              Reply("*playback sounds*", <<>>))
                     EXCEPT !.did = {"fromFile", "replaced"}]

\* _processIOCommand
processIOCommand(S, cmd, cargs, io, t) ==
    IF S.awake THEN Responding(S, Reply("*sleepy noises*", <<>>))
    ELSE accessFile(S, cmd, cargs, io, t)

\* the parameter names of the set command
SentenceLength == << "s", "e", "n", "t", "e", "n", "c", "e", "-", "l", "e", "n", "g", "t", "h" >>

SentenceSampleCount == << "s", "e", "n", "t", "e", "n", "c", "e", "-", "s", "a", "m", "p", "l", "e",
                          "-", "c", "o", "u", "n", "t" >>

SentenceConstantAlpha == << "s", "e", "n", "t", "e", "n", "c", "e", "-", "c", "o", "n", "s", "t",
                            "a", "n", "t", "-", "a", "l", "p", "h", "a" >>

SentenceConstantBeta == << "s", "e", "n", "t", "e", "n", "c", "e", "-", "c", "o", "n", "s", "t",
                           "a", "n", "t", "-", "b", "e", "t", "a" >>

\* the keys every object inherits from Object.prototype
ObjectKeys ==
    { << "c", "o", "n", "s", "t", "r", "u", "c", "t", "o", "r" >>,
      << "t", "o", "S", "t", "r", "i", "n", "g" >>,
      << "t", "o", "L", "o", "c", "a", "l", "e", "S", "t", "r", "i", "n", "g" >>,
      << "v", "a", "l", "u", "e", "O", "f" >>,
      << "h", "a", "s", "O", "w", "n", "P", "r", "o", "p", "e", "r", "t", "y" >>,
      << "i", "s", "P", "r", "o", "t", "o", "t", "y", "p", "e", "O", "f" >>,
      << "p", "r", "o", "p", "e", "r", "t", "y", "I", "s", "E", "n", "u", "m", "e",
         "r", "a", "b", "l", "e" >>,
      << "_", "_", "p", "r", "o", "t", "o", "_", "_" >>,
      << "_", "_", "d", "e", "f", "i", "n", "e", "G", "e", "t", "t", "e", "r", "_",
         "_" >>,
      << "_", "_", "d", "e", "f", "i", "n", "e", "S", "e", "t", "t", "e", "r", "_",
         "_" >>,
      << "_", "_", "l", "o", "o", "k", "u", "p", "G", "e", "t", "t", "e", "r", "_",
         "_" >>,
      << "_", "_", "l", "o", "o", "k", "u", "p", "S", "e", "t", "t", "e", "r", "_",
         "_" >> }

\* the keys of the object literal that maps a parameter to an option
ParameterKeys ==
    { SentenceLength, SentenceSampleCount, SentenceConstantAlpha, SentenceConstantBeta }

\* _processSettingsCommand from the lookup of the parameter on: number is
\* Number(value).  The parameter is looked up in an object literal, which
\* finds the keys the literal inherits as well; those fall through the switch.
\* Every integer of the model is a safe integer
settingChanged(S, parameter, value, number) ==
    IF parameter \notin ParameterKeys \cup ObjectKeys
    THEN Responding(S, errorText("Unknown parameter: ", parameter))
    ELSE IF parameter \in {SentenceLength, SentenceSampleCount}
    THEN IF number # <<>> /\ RatGt(number[1], <<0, 1>>) /\ number[1][2] = 1
         THEN [Responding(IF parameter = SentenceLength
                          THEN [S EXCEPT !.options.sentenceLength = number[1][1]]
                          ELSE [S EXCEPT !.options.sentenceSampleCount = number[1][1]],
                          Reply("*changed to*", << parameter, value >>))
                 EXCEPT !.did = {"set"}]
         ELSE Responding(S, errorText("Invalid value.", <<>>))
    ELSE IF parameter \in {SentenceConstantAlpha, SentenceConstantBeta}
    THEN IF number # <<>> /\ RatGt(number[1], <<0, 1>>) /\ IsFinite(number[1])
         THEN [Responding(IF parameter = SentenceConstantAlpha
                          THEN [S EXCEPT !.options.sentenceConstantAlpha = number[1]]
                          ELSE [S EXCEPT !.options.sentenceConstantBeta = number[1]],
                          Reply("*changed to*", << parameter, value >>))
                 EXCEPT !.did = {"set"}]
         ELSE Responding(S, errorText("Invalid value.", <<>>))
    ELSE Responding(S, Reply("*impossible bleat*", <<>>))

\* _processSettingsCommand
processSettingsCommand(S, cargs) ==
    IF Len(cargs) < 1 THEN Responding(S, errorText("No parameter specified.", <<>>))
    ELSE IF Len(cargs) < 2 THEN Responding(S, errorText("No value specified.", <<>>))
    ELSE IF Len(cargs) > 2 THEN Responding(S, errorText("Invalid number of arguments.", <<>>))
    ELSE settingChanged(S, cargs[1], cargs[2], toNumber(cargs[2]))

\* _checkLanguage
checkLanguage(language) == language \in Languages

\* Array.prototype.join('_')
RECURSIVE joinWith(_, _)
joinWith(q, sep) ==
    IF q = <<>> THEN <<>>
    ELSE IF Len(q) = 1 THEN q[1]
    ELSE q[1] \o << sep >> \o joinWith(Tail(q), sep)

\* what the asynchronous function of _processStudyCommand passes to respond
studyReply(topic, returned) ==
    IF returned[1] = "throws" THEN errorText(returned[2], <<>>)
    ELSE IF returned[2] = -1 THEN Reply("*has already checked*", topic)
    ELSE IF returned[2] = 0 THEN Reply("*couldn't learn anything new about*", topic)
    ELSE Reply("*analyzed symbols about*", << returned[2], topic >>)

\* the handler of a study command has called analyze for the topic
studied(S, topic, called) ==
    [Handled([S EXCEPT !.generator = called.generator, !.limiter = called.limiter]) EXCEPT
       !.did     = {"analyze"},
       !.called  = << [title |-> topic, returned |-> called.returned] >>]

\* _processStudyCommand, with what its asynchronous function does before it
\* first waits: analyze runs up to its request, or returns or throws before
\* it.  The function goes on, and answers, after the handler has returned
processStudyCommand(S, cargs, t) ==
    IF Len(cargs) < 1 THEN Responding(S, errorText("No language specified.", <<>>))
    ELSE IF ~checkLanguage(toLowerCase(cargs[1]))
    THEN Responding(S, errorText("Unsupported language: ", toLowerCase(cargs[1])))
    ELSE IF Len(cargs) < 2 THEN Responding(S, errorText("No topic specified.", <<>>))
    ELSE studied(S, joinWith(Tail(cargs), "_"),
                 analyzeCalled(S.generator, S.limiter, joinWith(Tail(cargs), "_"), t))

\* the arguments _processExplainCommand passes to WikiGenerator.generate
explainArgs(opts, kws) ==
    [length    |-> opts.sentenceLength,
     maxLength |-> opts.sentenceLength * 2,
     keywords  |-> kws,
     samples   |-> opts.sentenceSampleCount,
     alpha     |-> opts.sentenceConstantAlpha,
     beta      |-> opts.sentenceConstantBeta]

\* _processExplainCommand after the generate call
explained(S, call) ==
    IF call.returned[1] = "throws"
    THEN [Handled([S EXCEPT !.generator = call.generator])
            EXCEPT !.threw = TRUE, !.did = {"generate"}]
    ELSE [Responding([S EXCEPT !.generator = call.generator],
                     IF Len(call.returned[2].sentence) < 1
                     THEN Reply("*wet, sad bleat of failure*", <<>>)
                     ELSE Reply("", call.returned[2].sentence))
            EXCEPT !.did = {"generate"}]

\* _processExplainCommand; draws holds the values Math.random returns
processExplainCommand(S, cargs, draws) ==
    IF Len(cargs) < 1 THEN Responding(S, errorText("No language specified.", <<>>))
    ELSE IF ~checkLanguage(toLowerCase(cargs[1]))
    THEN Responding(S, errorText("Unsupported language: ", toLowerCase(cargs[1])))
    ELSE explained(S, generate(S.generator, explainArgs(S.options, Tail(cargs)), draws))

\* the value of responses[cmd] when it is not null or undefined, by its
\* length and its elements: an array of texts or, under the one key of
\* lower-case letters every object inherits, the function Object, which has
\* one parameter and no elements
responseOf(responses, cmd) ==
    IF cmd \in DOMAIN responses
    THEN << [length |-> Len(responses[cmd]), elements |-> responses[cmd]] >>
    ELSE IF cmd = "constructor" THEN << [length |-> 1, elements |-> <<>>] >>
    ELSE <<>>

\* pickResponse; pick is Math.floor(Math.random() * array.length).  What has
\* no element at the index gives the text undefined
pickResponse(array, pick) ==
    LET index == Max(0, Min(array.length - 1, pick)) + 1 IN
    IF array.length < 1 THEN Reply("*undefined bleat*", <<>>)
    ELSE IF index \in 1..Len(array.elements)
    THEN Reply("*" \o array.elements[index] \o "*", <<>>)
    ELSE Reply("*undefined*", <<>>)

\* a flag that is flipped, whatever the command
setAwakeToggling(S, flag, done, already) ==
    Responding([S EXCEPT !.awake = ~S.awake], Reply(done, <<>>))

\* the cases kick/start (flag TRUE) and sleep/stop (flag FALSE) of _onCommand
setAwake(S, flag, done, already) ==
    IF S.awake # flag
    THEN Responding([S EXCEPT !.awake = flag], Reply(done, <<>>))
    ELSE Responding(S, Reply(already, <<>>))

\* _onCommand from the rate limit on: S1 is the bot with the user's limiter
\* after tryRemoveTokens(1), which returned what is given
limitedCommand(S1, user, cmd, cargs, env, t, returned) ==
    IF ~returned
    THEN [Handled(S1) EXCEPT
            !.removed = << FALSE >>,
            !.replies = IF user \in Admins THEN << Reply("*slaps with a hoof*", user) >>
                        ELSE <<>>]
    ELSE IF ~S1.awake
    THEN [Responding(S1, Reply("*Zzz...*", <<>>)) EXCEPT !.removed = << TRUE >>]
    ELSE [(IF cmd = "study" THEN processStudyCommand(S1, cargs, t)
           ELSE IF cmd = "explain" THEN processExplainCommand(S1, cargs, env.draws)
           ELSE IF cmd = "help"
           THEN [Responding(S1, Reply("help", <<>>)) EXCEPT !.did = {"help"}]
           ELSE IF responseOf(Responses, cmd) # <<>>
           THEN [Responding(S1, pickResponse(responseOf(Responses, cmd)[1], env.pick))
                   EXCEPT !.did = {"response"}]
           ELSE Handled(S1))
            EXCEPT !.removed = << TRUE >>]

\* the user's limiter is asked for a token, and is kept
rateLimited(S, user, cmd, cargs, env, t, call) ==
    limitedCommand([S EXCEPT !.users = [S.users EXCEPT ![user] = << call.limiter >>]],
                   user, cmd, cargs, env, t, call.returned)

\* _onCommand.  env holds what the handler meets outside the bot: whether the
\* file system fails, and the values Math.random returns
onCommand(S, user, cmd, cargs, env, t) ==
    IF user \in Admins /\ cmd \in {"kick", "start"}
    THEN setAwake(S, TRUE, "*Windows 98 SE startup noises*", "*whine*")
    ELSE IF user \in Admins /\ cmd \in {"sleep", "stop"}
    THEN setAwake(S, FALSE, "*Windows 98 SE shutdown sound*", "*snore*")
    ELSE IF user \in Admins /\ cmd \in {"write", "read"}
    THEN processIOCommand(S, cmd, cargs, env.io, t)
    ELSE IF user \in Admins /\ cmd = "set"
    THEN processSettingsCommand(S, cargs)
    ELSE rateLimited(S, user, cmd, cargs, env, t,
                     tryRemoveTokens(getUserEntry(S.users, user, t), <<1, 1>>, t))

----------------------------------------------------------------------------
(* TelegramBot (src/unnamed/part_000).  The bot is a record of its _options, *)
(* its two limiters, _updateOffset, the names of the events that have a      *)
(* listener, and whether process.exit was called.  A handler is a function   *)
(* of a record X of the bot, the requests and timers outstanding, the        *)
(* callbacks its listeners have kept, and, as history, the errors raised and *)
(* the events the listeners received.                                        *)

\* the fill time of the error limiter, in milliseconds
HourMs == 3600000

\* new Options(defaults, options): options is <<>> when none are given
Options(defaults, given) ==
    IF given = <<>> THEN defaults
    ELSE [key \in DOMAIN defaults |->
            IF key \in DOMAIN given[1] THEN given[1][key] ELSE defaults[key]]

\* the defaults of TelegramBot's options
TelegramDefaults ==
    [maxErrorsPerHour     |-> 3,
     maxRequestsPerMinute |-> 120,
     maxResponseLength    |-> 4096,
     messageTimeout       |-> 15000,
     pollDelay            |-> 1000,
     pollErrorDelay       |-> 60000,
     pollTimeout          |-> 300]

\* an event name that is a string, and one that is an Error object
EventName(string) == << "string", string >>

EventObject(message) == << "object", message >>

\* EventEmitter.prototype.emit(name, payload): the listeners registered under
\* the name are called; an 'error' event without listener throws
emit(X, name, payload) ==
    IF name \in X.telegram.listeners
    THEN [X |-> [X EXCEPT !.received = Append(X.received, [name |-> name, payload |-> payload])],
          threw |-> FALSE]
    ELSE [X |-> X, threw |-> name = EventName("error")]

\* _emitError(error): this.emit(error)
emitError(X, message) ==
    LET emitted == emit(X, EventObject(message), <<>>) IN
    IF emitted.threw THEN [emitted.X EXCEPT !.telegram.exited = TRUE] ELSE emitted.X

\* an error is thrown: history
Raised(X, where, message) ==
    [X EXCEPT !.raised = Append(X.raised, [where |-> where, message |-> message])]

\* the timer of the next poll is set
pollDelayed(X, t) ==
    [X EXCEPT !.pending = Append(X.pending,
                              [kind |-> "timer", stage |-> "set",
                               info |-> t + X.telegram.options.pollErrorDelay])]

\* the error limiter becomes what a call left
errorCounted(X, call) == [X EXCEPT !.telegram.errorLimiter = call.limiter]

\* a catch block that sets the timer whether or not a token could be removed
pollFailedAlways(X, t) ==
    IF emitError(X, "Error while polling updates:").telegram.exited
    THEN emitError(X, "Error while polling updates:")
    ELSE pollDelayed(errorCounted(emitError(X, "Error while polling updates:"),
                                  tryRemoveTokens(X.telegram.errorLimiter, <<1, 1>>, t)), t)

\* the catch block of _runPollLoop once the error has been emitted: call is
\* what tryRemoveTokens(1) of the error limiter gives
pollFailedWith(X1, call, t) ==
    IF X1.telegram.exited THEN X1
    ELSE IF ~call.returned THEN [errorCounted(X1, call) EXCEPT !.telegram.exited = TRUE]
    ELSE pollDelayed(errorCounted(X1, call), t)

\* the catch block of _runPollLoop at time t
pollFailed(X, t) ==
    pollFailedWith(emitError(X, "Error while polling updates:"),
                   tryRemoveTokens(X.telegram.errorLimiter, <<1, 1>>, t), t)

\* _createRequest from the limit on: call is what tryRemoveTokens(1) of the
\* request limiter gave
requestCreated(X1, method, info, returned) ==
    IF ~returned THEN [X |-> X1, threw |-> TRUE]
    ELSE [X |-> [X1 EXCEPT !.pending = Append(X1.pending,
                               [kind |-> method, stage |-> "fetch", info |-> info])],
          threw |-> FALSE]

requestLimited(X, method, info, call) ==
    requestCreated([X EXCEPT !.telegram.requestLimiter = call.limiter], method, info,
                   call.returned)

\* _createRequest up to the request: threw tells whether the limit was exceeded
createRequest(X, method, info, t) ==
    requestLimited(X, method, info, tryRemoveTokens(X.telegram.requestLimiter, <<1, 1>>, t))

\* _runPollLoop up to the request of _processUpdates
runPollLoop(X, t) ==
    LET made == createRequest(X, "getUpdates", X.telegram.updateOffset, t) IN
    IF made.threw
    THEN pollFailed(Raised(made.X, "poll", "Request rate limit exceeded."), t)
    ELSE made.X

\* _respond from its request on, and the catch block of the callback around it
responded(made) ==
    IF made.threw
    THEN emitError(Raised(made.X, "respond", "Request rate limit exceeded."),
                   "Request rate limit exceeded.")
    ELSE made.X

\* the callback handed to the message listeners is called with text: _respond
\* up to its request, and the catch block around it
respond(X, text, t) ==
    responded(createRequest(X, "sendMessage",
                    SubSeq(text, 1, Min(Len(text), X.telegram.options.maxResponseLength)), t))

\* the callback is called with replies of DeerBot, one after the other.  A
\* reply stands for a text shorter than the maxResponseLength of a TelegramBot
\* made without options (4096), which substr leaves whole
RECURSIVE respondAll(_, _, _)
respondAll(X, replies, t) ==
    IF replies = <<>> THEN X
    ELSE respondAll(responded(createRequest(X, "sendMessage", Head(replies), t)),
                    Tail(replies), t)

\* what a listener of 'message' does with the callback it is handed: it calls
\* it with the message's text before it returns ("now"), keeps it to call it
\* later ("later"), or never calls it ("never")
heard(X, message, t) ==
    IF message.answered = "now" THEN respond(X, message.text[1], t)
    ELSE IF message.answered = "later"
    THEN [X EXCEPT !.kept = Append(X.kept, [text |-> message.text[1]])]
    ELSE X

\* the loop of _processUpdates over data.result, from update k on
RECURSIVE processUpdates(_, _, _, _)
processUpdates(X, updates, k, t) ==
    IF k > Len(updates) THEN X
    ELSE LET update  == updates[k]
             X1      == [X EXCEPT !.telegram.updateOffset = update.update_id + 1]
             message == update.message
         IN  IF /\ message # <<>>
                /\ message[1].text # <<>>
                /\ t - message[1].date * 1000 <= X.telegram.options.messageTimeout
             THEN LET emitted == emit(X1, EventName("message"), message[1]) IN
                  processUpdates(IF emitted.X.received # X1.received
                                 THEN heard(emitted.X, message[1], t)
                                 ELSE emitted.X,
                                 updates, k + 1, t)
             ELSE processUpdates(X1, updates, k + 1, t)

\* new TelegramBot(token, options) at time t: the constructor ends by calling
\* _runPollLoop
newTelegramBot(given, t) ==
    LET opts == Options(TelegramDefaults, given) IN
    runPollLoop([telegram |-> [options        |-> opts,
                               errorLimiter   |-> RateLimiter(<<opts.maxErrorsPerHour, 1>>,
                                                              <<HourMs, 1>>, <<>>, t),
                               requestLimiter |-> RateLimiter(<<opts.maxRequestsPerMinute, 1>>,
                                                              <<MinuteMs, 1>>, <<>>, t),
                               updateOffset   |-> 0,
                               listeners      |-> {},
                               exited         |-> FALSE],
                 pending  |-> <<>>,
                 kept     |-> <<>>,
                 raised   |-> <<>>,
                 received |-> <<>>], t)

\* EventEmitter.prototype.on(name, listener)
listen(X, name) == [X EXCEPT !.telegram.listeners = X.telegram.listeners \cup {EventName(name)}]

\* the bot, what is outstanding, the callbacks kept, and an empty history
TelegramNow ==
    [telegram |-> telegram[1], pending |-> pending, kept |-> kept,
     raised |-> <<>>, received |-> <<>>]

\* X without the k-th of the outstanding requests and timers
Settled(X, k) == [X EXCEPT !.pending = splice(X.pending, k)]

TelegramBecomes(X) ==
    /\ telegram' = << X.telegram >>
    /\ pending' = X.pending
    /\ events' = << [raised |-> X.raised, received |-> X.received] >>
    /\ kept' = X.kept

----------------------------------------------------------------------------
(* DeerBot and its WikiGenerator: actions *)

\* analyze calls that may wait at a time
MaxCalls == 2

\* answers of the DeerBot that may be outstanding when a message arrives
MaxOutstanding == 1

\* requests of the TelegramBot's limit that may be used up when a message
\* arrives: under SpecBot and SpecStudy, under SpecFiles, under SpecMinute
MaxSent == 4

MaxFileSent == 6

MaxMinuteSent == 2

\* the defaults of DeerBot's options
DeerDefaults ==
    [dataPath                 |-> "./data/",
     maxUserRequestsPerMinute |-> 10,
     sentenceLength           |-> 50,
     sentenceConstantAlpha    |-> <<2, 1>>,
     sentenceConstantBeta     |-> <<3, 2>>,
     sentenceSampleCount      |-> 1000]

\* the defaults of WikiGenerator's options
WikiDefaults ==
    [maxRequestsPerMinute |-> 12,
     minInputLength       |-> 20,
     sentenceGraphOrder   |-> 4]

\* the WikiGenerator DeerBot holds
CurrentGenerator ==
    [options |-> wiki[1].options,
     library |-> wiki[1].library,
     graphs  |-> IF wiki[1].made THEN << [order |-> order, graph |-> graph] >> ELSE <<>>,
     finals  |-> finals]

BotState ==
    [awake     |-> awake,
     users     |-> users,
     options   |-> options[1],
     generator |-> CurrentGenerator,
     limiter   |-> limiter[1],
     disk      |-> disk]

\* the WikiGenerator DeerBot holds becomes gen
GeneratorBecomes(gen) ==
    /\ wiki' = << [options |-> gen.options, library |-> gen.library,
                   made |-> gen.graphs # <<>>] >>
    /\ order' = IF gen.graphs # <<>> THEN gen.graphs[1].order ELSE order
    /\ graph' = IF gen.graphs # <<>> THEN gen.graphs[1].graph ELSE graph
    /\ finals' = gen.finals

StateBecomes(S) ==
    /\ awake' = S.awake
    /\ users' = S.users
    /\ options' = << S.options >>
    /\ GeneratorBecomes(S.generator)
    /\ limiter' = << S.limiter >>
    /\ disk' = S.disk

\* the smallest name no replaced generator bears
FreshName == CHOOSE n \in 1..(Len(detached) + 1) : \A k \in 1..Len(detached) : detached[k].name # n

\* the calls and the replaced generators once the calls at the places in ended
\* have ended: a replaced generator no call waits on is dropped
Ended(cs, ds, ended) ==
    LET left == [k \in 1..Len(cs) |-> k]
        stay == SelectSeq(left, LAMBDA k : k \notin ended)
        rest == [k \in 1..Len(stay) |-> cs[stay[k]]]
    IN  [calls    |-> rest,
         detached |-> SelectSeq(ds, LAMBDA d : \E k \in 1..Len(rest) : rest[k].on = d.name)]

\* the language of the commands, also in upper case
Language == << "a", "b" >>

\* study: no language, an unsupported one, no topic, topics A, B, A_B and |
StudyArgs == { <<>>, << <<"b">> >>, << Language >>, << Language, <<"A">> >>,
               << << "A", "B" >>, <<"B">> >>, << Language, <<"A">>, <<"B">> >>,
               << Language, <<"|">> >> }

\* explain: no language, no keywords, the keyword a
ExplainArgs == { <<>>, << Language >>, << Language, <<"a">> >> }

\* write and read: no name, the name f, a name with a dot, two names
IOArgs == { <<>>, << <<"f">> >>, << <<"f", ".", "g">> >>, << <<"f">>, <<"f">> >> }

\* set: no parameter, no value, an unknown parameter, sample counts 2 and 1,
\* lengths 0 and 1.5, a beta of 0, an alpha that is no number, three arguments,
\* a key every object inherits, and the literals 0x2, 1e0, +2 and Infinity
SetArgs == { <<>>, << SentenceLength >>, << <<"a">>, <<"1">> >>,
             << SentenceSampleCount, <<"2">> >>, << SentenceSampleCount, <<"1">> >>,
             << SentenceLength, <<"0">> >>, << SentenceLength, <<"1", ".", "5">> >>,
             << SentenceConstantBeta, <<"0">> >>, << SentenceConstantAlpha, <<"a">> >>,
             << SentenceLength, <<"1">>, <<"1">> >>,
             << << "t", "o", "S", "t", "r", "i", "n", "g" >>, <<"1">> >>,
             << SentenceSampleCount, << "0", "x", "2" >> >>,
             << SentenceLength, << "1", "e", "0" >> >>,
             << SentenceConstantAlpha, << "+", "2" >> >>,
             << SentenceConstantBeta, << "I", "n", "f", "i", "n", "i", "t", "y" >> >> }

\* the commands users send
CommandArgs ==
    { [cmd |-> c, cargs |-> <<>>] :
        c \in {"start", "kick", "stop", "sleep", "help", "hello", "quiet", "other",
               "constructor"} }
    \cup { [cmd |-> "study", cargs |-> a] : a \in StudyArgs }
    \cup { [cmd |-> "explain", cargs |-> a] : a \in ExplainArgs }
    \cup { [cmd |-> c, cargs |-> a] : c \in {"write", "read"}, a \in IOArgs }
    \cup { [cmd |-> "set", cargs |-> a] : a \in SetArgs }

\* what a command can meet outside the bot
EnvArgs(c) ==
    { [io |-> io, pick |-> pick, draws |-> draws] :
        io    \in IF c.cmd \in {"write", "read"} THEN {"ok", "fails"} ELSE {"ok"},
        pick  \in IF c.cmd = "hello" THEN {0, 1} ELSE {0},
        draws \in IF c.cmd = "explain"
                  THEN [1..options[1].sentenceSampleCount ->
                           [1..(2 * options[1].sentenceLength) -> Draws]]
                  ELSE { <<>> } }

\* n spaces
Pad(n) == [k \in 1..n |-> " "]

\* the article of which a response tells: a line of 20 characters up to its
\* full stop, which is kept ("Ab a."), a line of 13, which is too short, and a
\* line of 20 that begins in lower case
PageA == [title   |-> << <<"A">> >>,
          extract |-> << << "A", "b" >> \o Pad(16) \o << "a", ".", "\n", "A" >> \o Pad(10)
                           \o << "b", ".", "\n", "b" >> \o Pad(17) \o << "a", "." >> >>]

\* a line of 20 characters up to its full stop, with parentheses and a rest
PageB == [title   |-> << <<"B">> >>,
          extract |-> << << "B", " ", "(", " ", "a", " ", ")" >> \o Pad(12) \o << ".", "b" >> >>]

\* a page without text and a page without title
PageNull == [title |-> << <<"B">> >>, extract |-> <<>>]

PageUntitled == [title |-> <<>>, extract |-> << << "A", "b" >> \o Pad(17) \o << "." >> >>]

\* how the request of an analyze call ends
FetchArgs == { [settled |-> "rejected", ok |-> FALSE], [settled |-> "resolved", ok |-> FALSE],
               [settled |-> "resolved", ok |-> TRUE] }

\* how the reading of the response's body ends
JsonArgs ==
    { [settled |-> "rejected", query |-> <<>>], [settled |-> "resolved", query |-> <<>>],
      [settled |-> "resolved", query |-> << [pages |-> <<>>] >>] }
    \cup { [settled |-> "resolved", query |-> << [pages |-> << p >>] >>] :
             p \in { << PageA >>, << PageA, PageB >>, << PageNull, PageUntitled >> } }

\* the titles whose analysis has failed so far, as lastAnalyze tells, and
\* those among them that failed at the request limit
FailedSoFar == IF lastAnalyze = <<>> THEN {} ELSE lastAnalyze[1].failed

LimitedSoFar == IF lastAnalyze = <<>> THEN {} ELSE lastAnalyze[1].limited

\* no step of the TelegramBot has left a history
Silent == IF events = <<>> THEN TRUE
          ELSE events[1].raised = <<>> /\ events[1].received = <<>>

\* no callback is running: the histories of the latest callback are blank, for
\* a DeerBot those of its TelegramBot as well
Quiet ==
    /\ lastCmd = <<>>
    /\ outcome = <<>>
    /\ (IF lastAnalyze = <<>> THEN TRUE ELSE ~lastAnalyze[1].fresh)
    /\ options # <<>> => Silent

\* the sendMessage requests of the TelegramBot that are outstanding
Outstanding == Cardinality({k \in 1..Len(pending) : pending[k].kind = "sendMessage"})

\* how many of the requests its request limiter allows the TelegramBot has
\* used up at the time
Sent ==
    DblSub(DblInt(telegram[1].requestLimiter.capacity),
           addTokens(telegram[1].requestLimiter, now).count)

\* fewer than MaxOutstanding answers of the DeerBot are outstanding: Telegram
\* answers the sendMessage requests before anything else reaches the bot
Delivered == options # <<>> => Outstanding < MaxOutstanding

\* fewer than n of the requests the TelegramBot's limiter allows are used up
Reachable(n) == DblGt(DblInt(n), Sent)

\* the callback _onMessage hands to _onCommand is called with each of replies:
\* respond(text, true) of the TelegramBot's callback.  A WikiGenerator that is
\* called directly has no TelegramBot
Responds(replies) ==
    IF telegram = <<>> THEN UNCHANGED <<telegram, pending, events, kept>>
    ELSE \E X \in { respondAll(TelegramNow, replies, now) } : TelegramBecomes(X)

\* no analyze call has ended whose caller has yet to go on: callbacks of
\* requests and timers run only when no continuation is left to run
Drained == \A k \in 1..Len(calls) : calls[k].stage # "ended"

\* new WikiGenerator(options) at time now, without library and graphs: the
\* options and the request limiter
WikiGeneratorMade(given) ==
    /\ wiki' = << [options |-> Options(WikiDefaults, given), library |-> <<>>, made |-> FALSE] >>
    /\ limiter' = << requestLimiter(Options(WikiDefaults, given), now) >>
    /\ built' = << [capacity |-> <<Options(WikiDefaults, given).maxRequestsPerMinute, 1>>,
                    fillTime |-> <<MinuteMs, 1>>, initialCount |-> <<>>] >>
    /\ lastCall' = << [op |-> "new", at |-> now, threw |-> FALSE, nth |-> 0] >>

\* new DeerBot(config, options) at time now: the options, the flag, the users,
\* a WikiGenerator with the defaults of its options and its request limiter,
\* a TelegramBot with the defaults of its options, which begins to poll, and
\* the two listeners
NewBot(given) ==
    /\ options = <<>>
    /\ options' = << Options(DeerDefaults, given) >>
    /\ awake' = FALSE
    /\ users' = [u \in Users |-> <<>>]
    /\ WikiGeneratorMade(<<>>)
    /\ \E X \in { listen(listen(newTelegramBot(<<>>, now), "error"), "message") } :
          TelegramBecomes(X)
    /\ UNCHANGED <<now, accepted, requests, outcome>>
    /\ UNCHANGED <<calls, detached, disk, lastCmd, lastAnalyze>>
    /\ UNCHANGED graphVars
    /\ UNCHANGED genVars

\* a DeerBot constructed with the options maxUserRequestsPerMinute: 1 or 2,
\* sentenceLength: 1, sentenceConstantAlpha: 2.0, sentenceConstantBeta: 1.0 and
\* sentenceSampleCount: 1
NewDeerBot ==
    \E perUser \in PerMinuteArgs :
        NewBot(<< [maxUserRequestsPerMinute |-> perUser,
                   sentenceLength           |-> 1,
                   sentenceConstantAlpha    |-> <<2, 1>>,
                   sentenceConstantBeta     |-> <<1, 1>>,
                   sentenceSampleCount      |-> 1] >>)

\* time passes
Advance ==
    /\ Quiet
    /\ Drained
    /\ Delivered
    /\ \E d \in AdvanceArgs :
          /\ now + d <= MaxHalfMinutes * (MinuteMs \div 2)
          /\ now' = now + d
          /\ accepted' = [u \in Users |-> Recent(accepted[u], now + d)]
          /\ requests' = Recent(requests, now + d)
    /\ UNCHANGED <<limiter, built, lastCall, options, users, outcome>>
    /\ UNCHANGED botVars
    /\ UNCHANGED graphVars
    /\ UNCHANGED genVars

\* what the latest analyze call did: had tells whether the title was among the
\* queries, sent whether a request went out, tokens and left the count of the
\* request limiter before and after, on the generator (0: the one the bot holds)
AnalyzeRecord(title, on, had, sent, tokens, left, returned, reply) ==
    [fresh |-> TRUE,
     title |-> title, on |-> on, had |-> had, sent |-> sent, tokens |-> tokens,
     left |-> left, returned |-> returned, reply |-> reply,
     failed |-> IF returned # <<>> /\ returned[1][1] = "throws"
                THEN FailedSoFar \cup {title} ELSE FailedSoFar,
     limited |-> IF returned = << Threw("Request rate limit exceeded.") >>
                 THEN LimitedSoFar \cup {title} ELSE LimitedSoFar]

\* what the caller of an analyze call passes to respond when the call has
\* ended: the asynchronous function of _processStudyCommand answers; a call
\* made on a WikiGenerator without a DeerBot has no such caller
Answer(title, returned) ==
    IF options = <<>> THEN <<>> ELSE << studyReply(title, returned) >>

\* a message with command c from user arrives: _onCommand, from its call to
\* its return.  An analyze call it made either waits for its response or has
\* ended; the study command is answered in a later step
Command(user, c) ==
    /\ options # <<>>
    /\ Quiet
    /\ Delivered
    /\ c.cmd = "study" => Len(calls) < MaxCalls
    /\ \E env \in EnvArgs(c), S \in { BotState } :
        \E R \in { onCommand(S, user, c.cmd, c.cargs, env, now) } :
         LET waits    == R.called # <<>> /\ R.called[1].returned = <<>>
             waiting  == {k \in 1..Len(calls) : calls[k].on = 0 /\ calls[k].stage # "ended"}
             orphaned == "replaced" \in R.did /\ waiting # {}
             cs       == IF orphaned
                         THEN [k \in 1..Len(calls) |->
                                 IF k \in waiting THEN [calls[k] EXCEPT !.on = FreshName]
                                 ELSE calls[k]]
                         ELSE calls
         IN  /\ StateBecomes(R.state)
             /\ calls' = IF R.called # <<>>
                         THEN Append(cs, [title    |-> R.called[1].title,
                                          stage    |-> IF waits THEN "fetch" ELSE "ended",
                                          on       |-> 0,
                                          returned |-> R.called[1].returned])
                         ELSE cs
             /\ detached' = IF orphaned
                            THEN Append(detached, [name |-> FreshName, generator |-> S.generator])
                            ELSE detached
             /\ lastCmd' = << [user |-> user, cmd |-> c.cmd, cargs |-> c.cargs,
                               awake |-> awake, removed |-> R.removed,
                               replies |-> R.replies, did |-> R.did, threw |-> R.threw] >>
             /\ lastAnalyze' =
                  IF R.called = <<>> THEN lastAnalyze
                  ELSE << AnalyzeRecord(R.called[1].title, 0,
                             S.generator.library # <<>>
                               /\ indexOf(S.generator.library[1].queries, R.called[1].title) # 0,
                             waits, S.limiter.count, R.state.limiter.count,
                             R.called[1].returned, <<>>) >>
             /\ accepted' = IF R.removed = << TRUE >>
                            THEN [accepted EXCEPT ![user] = Append(accepted[user], now)]
                            ELSE accepted
             /\ requests' = IF waits THEN Append(requests, now) ELSE requests
             /\ Responds(R.replies)
    /\ UNCHANGED <<now, built, lastCall, outcome>>
    /\ UNCHANGED <<nAnalyze, lastWords, snapshot>>
    /\ UNCHANGED genVars

\* the response to the request of a waiting analyze call arrives, or the
\* request fails: analyze goes on, and when it throws, its caller
Fetch(k, res) ==
    /\ k \in 1..Len(calls)
    /\ Quiet
    /\ Drained
    /\ Delivered
    /\ (  /\ calls[k].stage = "fetch"
         /\ LET r == analyzeFetched(res)
                e == Ended(calls, detached, {k})
            IN  IF r = <<>>
                THEN /\ calls' = [calls EXCEPT ![k].stage = "json"]
                     /\ UNCHANGED <<detached, lastAnalyze>>
                     /\ Responds(<<>>)
                ELSE /\ calls' = e.calls
                     /\ detached' = e.detached
                     /\ lastAnalyze' = << AnalyzeRecord(calls[k].title, calls[k].on, FALSE, TRUE,
                                              limiter[1].count, limiter[1].count, r,
                                              Answer(calls[k].title, r[1])) >>
                     /\ Responds(Answer(calls[k].title, r[1]))  )
    /\ UNCHANGED <<now, limiter, built, lastCall, options, users, accepted, requests, outcome>>
    /\ UNCHANGED <<awake, wiki, disk, lastCmd>>
    /\ UNCHANGED graphVars
    /\ UNCHANGED genVars

Fetched == \E k \in 1..MaxCalls, res \in FetchArgs : Fetch(k, res)

\* the body of the response to a waiting analyze call has been read, or
\* reading it fails: the rest of analyze runs, and then its caller
Parse(k, data) ==
    /\ k \in 1..Len(calls)
    /\ Quiet
    /\ Drained
    /\ Delivered
    /\ (  /\ calls[k].stage = "json"
         /\ \E R \in { analyzeParsed(IF calls[k].on = 0 THEN CurrentGenerator
                                      ELSE detached[CHOOSE j \in 1..Len(detached) :
                                                      detached[j].name = calls[k].on].generator,
                                      calls[k].title, data) } :
            LET on   == calls[k].on
                at   == CHOOSE j \in 1..Len(detached) : detached[j].name = on
                ds   == IF on = 0 THEN detached
                        ELSE [detached EXCEPT ![at].generator = R.generator]
                e    == Ended(calls, ds, {k})
            IN  /\ IF on = 0 THEN GeneratorBecomes(R.generator)
                   ELSE UNCHANGED <<wiki, order, graph, finals>>
                /\ calls' = e.calls
                /\ detached' = e.detached
                /\ lastAnalyze' = << AnalyzeRecord(calls[k].title, on, FALSE, TRUE,
                                         limiter[1].count, limiter[1].count, << R.returned >>,
                                         Answer(calls[k].title, R.returned)) >>
                /\ Responds(Answer(calls[k].title, R.returned))  )
    /\ UNCHANGED <<now, limiter, built, lastCall, options, users, accepted, requests, outcome>>
    /\ UNCHANGED <<awake, disk, lastCmd>>
    /\ UNCHANGED <<nAnalyze, lastWords, snapshot>>
    /\ UNCHANGED genVars

Parsed == \E k \in 1..MaxCalls, data \in JsonArgs : Parse(k, data)

\* the asynchronous function of _processStudyCommand goes on after an analyze
\* call that ended without waiting, and answers.  It runs once the handlers of
\* the messages that arrived together have returned, the earliest call first
StudyAnswered ==
    /\ Quiet
    /\ \E k \in 1..Len(calls) :
         /\ calls[k].stage = "ended"
         /\ \A j \in 1..(k - 1) : calls[j].stage # "ended"
         /\ calls' = Ended(calls, detached, {k}).calls
         /\ detached' = Ended(calls, detached, {k}).detached
         /\ lastAnalyze' = << AnalyzeRecord(calls[k].title, 0, FALSE, FALSE,
                                  limiter[1].count, limiter[1].count, <<>>,
                                  << studyReply(calls[k].title, calls[k].returned[1]) >>) >>
         /\ Responds(<< studyReply(calls[k].title, calls[k].returned[1]) >>)
    /\ UNCHANGED <<now, limiter, built, lastCall, options, users, accepted, requests, outcome>>
    /\ UNCHANGED <<awake, wiki, disk, lastCmd>>
    /\ UNCHANGED graphVars
    /\ UNCHANGED genVars

\* the callback that ran returns to the event loop: the histories of what it
\* did are blanked, the titles that failed are kept
CallbackReturns ==
    /\ ~Quiet
    /\ lastCmd' = <<>>
    /\ lastAnalyze' = IF FailedSoFar = {} THEN <<>>
                      ELSE << [fresh |-> FALSE, title |-> <<>>, on |-> 0, had |-> FALSE,
                               sent |-> FALSE, tokens |-> <<0, 1>>, left |-> <<0, 1>>,
                               returned |-> <<>>, reply |-> <<>>, failed |-> FailedSoFar,
                               limited |-> LimitedSoFar] >>
    /\ events' = IF events = <<>> THEN events ELSE << [raised |-> <<>>, received |-> <<>>] >>
    /\ outcome' = <<>>
    /\ UNCHANGED <<now, limiter, built, lastCall, options, users, accepted, requests>>
    /\ UNCHANGED <<awake, wiki, calls, detached, disk, telegram, pending, kept>>
    /\ UNCHANGED graphVars
    /\ UNCHANGED genVars

----------------------------------------------------------------------------
(* TelegramBot: actions *)

\* the options maxErrorsPerHour and pollErrorDelay
ErrorsPerHourArgs == {1, 2}

PollErrorDelayArgs == {MinuteMs \div 2, MinuteMs}

\* callbacks listeners may hold at a time under SpecPoll
MaxKept == 1

\* the updates of a response: a message that is answered at once, one that is
\* answered later, one that is not answered, one that is 16 seconds old, one
\* without text, and an update without message
UpdateArgs(t) ==
    { [update_id |-> 7, message |-> m] :
        m \in { <<>> } \cup
              { << [text |-> x, date |-> d, answered |-> a] >> :
                   x \in { <<>>, << <<"a", "b", "a">> >> },
                   d \in { t \div 1000, (t \div 1000) - 16 },
                   a \in {"now", "later", "never"} } }

\* how the reading of the body of a response of Telegram ends; result is <<>>
\* when the body has no result
TelegramArgs(t) ==
    { [settled |-> "rejected", ok |-> FALSE, result |-> <<>>],
      [settled |-> "resolved", ok |-> FALSE, result |-> <<>>],
      [settled |-> "resolved", ok |-> TRUE, result |-> <<>>],
      [settled |-> "resolved", ok |-> TRUE, result |-> << <<>> >>] }
    \cup { [settled |-> "resolved", ok |-> TRUE, result |-> << << u >> >>] : u \in UpdateArgs(t) }
    \cup { [settled |-> "resolved", ok |-> TRUE, result |-> << << u, u >> >>] :
             u \in { v \in UpdateArgs(t) : v.message # <<>> /\ v.message[1].answered = "now" } }

\* the messages of a body whose callback the listener keeps
Laters(data) ==
    IF data.result = <<>> THEN {}
    ELSE { k \in 1..Len(data.result[1]) :
             /\ data.result[1][k].message # <<>>
             /\ data.result[1][k].message[1].answered = "later" }

TelegramUnchanged ==
    /\ UNCHANGED <<limiter, built, lastCall, options, users, accepted, requests, outcome>>
    /\ UNCHANGED <<awake, wiki, calls, detached, disk, lastCmd, lastAnalyze>>
    /\ UNCHANGED graphVars
    /\ UNCHANGED genVars

\* new TelegramBot(token, options) with options of its own, and the listeners
\* registered, as DeerBot's constructor does, before anything else runs
NewTelegramBot ==
    /\ telegram = <<>>
    /\ \E perHour \in ErrorsPerHourArgs, perMinute \in PerMinuteArgs,
          errorDelay \in PollErrorDelayArgs :
         \E X \in { listen(listen(newTelegramBot(<< [maxErrorsPerHour     |-> perHour,
                                                maxRequestsPerMinute |-> perMinute,
                                                maxResponseLength    |-> 2,
                                                pollErrorDelay       |-> errorDelay] >>, now),
                          "error"), "message") } :
            TelegramBecomes(X)
    /\ UNCHANGED now
    /\ TelegramUnchanged

\* the response to an outstanding request arrives, or the request fails:
\* _createRequest goes on, and what awaits it when it throws
RequestFetch(k, res) ==
    /\ telegram # <<>>
    /\ ~telegram[1].exited
    /\ k \in 1..Len(pending)
    /\ (  /\ pending[k].stage = "fetch"
         /\ \E X \in { IF res.settled = "resolved" /\ res.ok
                       THEN [TelegramNow EXCEPT !.pending[k].stage = "json"]
                       ELSE IF pending[k].kind = "getUpdates"
                       THEN pollFailed(Raised(Settled(TelegramNow, k), "poll", "Request failed: "),
                                       now)
                       ELSE emitError(Raised(Settled(TelegramNow, k), "respond",
                                             "Request failed: "),
                                      "Request failed: ") } :
              TelegramBecomes(X)  )
    /\ UNCHANGED now
    /\ TelegramUnchanged

RequestFetched == \E k \in 1..Len(pending), res \in FetchArgs : RequestFetch(k, res)

\* the body of a response has been read, or reading it fails: _createRequest
\* returns or throws, and _processUpdates and _runPollLoop, or _respond, go on
RequestParse(k, data) ==
    /\ telegram # <<>>
    /\ ~telegram[1].exited
    /\ k \in 1..Len(pending)
    /\ (  /\ pending[k].stage = "json"
         /\ Len(kept) + Cardinality(Laters(data)) <= MaxKept
         /\ \E X \in { IF pending[k].kind = "getUpdates"
                       THEN IF data.settled = "rejected" \/ ~data.ok
                            THEN pollFailed(Raised(Settled(TelegramNow, k), "poll",
                                                   "Request failed: "), now)
                            ELSE IF data.result = <<>>
                            THEN pollFailed(Raised(Settled(TelegramNow, k), "poll",
                                                   "data.result is not iterable"), now)
                            ELSE LET X1 == processUpdates(Settled(TelegramNow, k),
                                                          data.result[1], 1, now)
                                 IN  [X1 EXCEPT !.pending =
                                         Append(X1.pending,
                                                [kind |-> "timer", stage |-> "set",
                                                 info |-> now + X1.telegram.options.pollDelay])]
                       ELSE IF data.settled = "rejected" \/ ~data.ok
                            THEN emitError(Raised(Settled(TelegramNow, k), "respond",
                                                  "Request failed: "),
                                           "Request failed: ")
                            ELSE Settled(TelegramNow, k) } :
              TelegramBecomes(X)  )
    /\ UNCHANGED now
    /\ TelegramUnchanged

RequestParsed == \E k \in 1..Len(pending), data \in TelegramArgs(now) : RequestParse(k, data)

\* a timer set by _runPollLoop fires
TimerFires ==
    /\ telegram # <<>>
    /\ ~telegram[1].exited
    /\ \E k \in 1..Len(pending) :
         /\ pending[k].kind = "timer"
         /\ pending[k].info <= now
         /\ \E X \in { runPollLoop(Settled(TelegramNow, k), now) } : TelegramBecomes(X)
    /\ UNCHANGED now
    /\ TelegramUnchanged

\* a listener of 'message' calls the callback it kept, with the text of the
\* message: _respond up to its request, and the catch block around it
RespondLater ==
    /\ telegram # <<>>
    /\ ~telegram[1].exited
    /\ \E k \in 1..Len(kept) :
         \E X \in { respond([TelegramNow EXCEPT !.kept = splice(kept, k)], kept[k].text, now) } :
            TelegramBecomes(X)
    /\ UNCHANGED now
    /\ TelegramUnchanged

NextPoll ==
    \/ NewTelegramBot
    \/ Advance
    \/ RequestFetched
    \/ RequestParsed
    \/ RespondLater
    \/ TimerFires

SpecPoll == Init /\ [][NextPoll]_vars

----------------------------------------------------------------------------
(* The answers of a DeerBot on their way to Telegram *)

\* the response to a sendMessage request of the DeerBot's TelegramBot arrives,
\* or the request fails
AnswerFetched ==
    /\ options # <<>>
    /\ Quiet
    /\ Drained
    /\ \E k \in 1..Len(pending), res \in FetchArgs :
         /\ pending[k].kind = "sendMessage"
         /\ RequestFetch(k, res)

\* the body of the response to a sendMessage request has been read, or reading
\* it fails
AnswerParsed ==
    /\ options # <<>>
    /\ Quiet
    /\ Drained
    /\ \E k \in 1..Len(pending), data \in { d \in TelegramArgs(now) : d.result = <<>> } :
         /\ pending[k].kind = "sendMessage"
         /\ RequestParse(k, data)

----------------------------------------------------------------------------
(* SpecWiki: a WikiGenerator of its own, its analyze calls as time passes *)

\* new WikiGenerator({maxRequestsPerMinute: 1 or 2})
NewWikiGenerator ==
    /\ wiki = <<>>
    /\ options = <<>>
    /\ \E perMinute \in PerMinuteArgs :
          WikiGeneratorMade(<< [maxRequestsPerMinute |-> perMinute] >>)
    /\ UNCHANGED <<now, options, users, accepted, requests, outcome>>
    /\ UNCHANGED <<awake, calls, detached, disk, lastCmd, lastAnalyze, telegram, pending,
                   events, kept>>
    /\ UNCHANGED graphVars
    /\ UNCHANGED genVars

\* the titles analyze is called with
TitleArgs == { <<"A">>, <<"|">> }

\* analyze(language, title) is called on the generator: the call up to its
\* request, or to its end before it
CallAnalyze(title) ==
    /\ wiki # <<>>
    /\ options = <<>>
    /\ Quiet
    /\ Len(calls) < MaxCalls
    /\ \E gen \in { CurrentGenerator } :
        \E R \in { analyzeCalled(gen, limiter[1], title, now) } :
          /\ GeneratorBecomes(R.generator)
          /\ limiter' = << R.limiter >>
          /\ calls' = IF R.returned # <<>> THEN calls
                      ELSE Append(calls, [title |-> title, stage |-> "fetch", on |-> 0,
                                          returned |-> <<>>])
          /\ lastAnalyze' = << AnalyzeRecord(title, 0,
                                   gen.library # <<>> /\ indexOf(gen.library[1].queries, title) # 0,
                                   R.returned = <<>>, limiter[1].count, R.limiter.count,
                                   R.returned, <<>>) >>
          /\ requests' = IF R.returned = <<>> THEN Append(requests, now) ELSE requests
    /\ UNCHANGED <<now, built, lastCall, options, users, accepted, outcome>>
    /\ UNCHANGED <<awake, detached, disk, lastCmd, telegram, pending, events, kept>>
    /\ UNCHANGED <<nAnalyze, lastWords, snapshot>>
    /\ UNCHANGED genVars

AnalyzeIsCalled == \E title \in TitleArgs : CallAnalyze(title)

\* the arguments generate is called with: two attempts at a text of one to two
\* words, which is too short for a sentence of the article A, and one at a text
\* of two to five words, without keywords or with the keyword a
WikiGenerateArgs ==
    { [ length    |-> l[1],
        maxLength |-> l[2],
        keywords  |-> k,
        samples   |-> l[3],
        alpha     |-> <<1, 1>>,
        beta      |-> <<1, 1>> ] : k \in { <<>>, << <<"a">> >> },
                                   l \in { <<1, 2, 2>>, <<2, 5, 1>> } }

\* generate(language, length, maxLength, keywords, samples, alpha, beta) is
\* called on the generator: it throws while the language has no graph, and
\* otherwise returns the best of its attempts and leaves the graph with the
\* empty nodes the attempts put into it
CallGenerate(a) ==
    /\ wiki # <<>>
    /\ options = <<>>
    /\ Quiet
    /\ \E gen \in { CurrentGenerator } :
        \E draws \in [1..a.samples -> [1..a.maxLength -> Draws]] :
          \E R \in { generate(gen, a, draws) } :
            /\ GeneratorBecomes(R.generator)
            /\ outcome' = << [args |-> a, draws |-> draws, before |-> graph,
                              result |-> R.returned] >>
    /\ UNCHANGED <<now, limiter, built, lastCall, options, users, accepted, requests>>
    /\ UNCHANGED <<awake, calls, detached, disk, lastCmd, lastAnalyze, telegram, pending,
                   events, kept>>
    /\ UNCHANGED <<nAnalyze, lastWords, snapshot>>
    /\ UNCHANGED genVars

GenerateIsCalled == \E a \in WikiGenerateArgs : CallGenerate(a)

NextWiki ==
    \/ NewWikiGenerator
    \/ Advance
    \/ AnalyzeIsCalled
    \/ GenerateIsCalled
    \/ Fetched
    \/ Parsed
    \/ CallbackReturns

SpecWiki == Init /\ [][NextWiki]_vars

----------------------------------------------------------------------------
(* SpecMinute: the two request limits of the bot over time *)

\* the commands that count: one answered before the limit, one subject to it,
\* one that goes on to a request of the generator and one whose analyze call
\* throws before the request
MinuteArgs ==
    { [cmd |-> "start", cargs |-> <<>>], [cmd |-> "help", cargs |-> <<>>],
      [cmd |-> "study", cargs |-> << Language, <<"A">> >>],
      [cmd |-> "study", cargs |-> << Language, <<"|">> >>] }

OnMinuteCommand ==
    /\ options # <<>>
    /\ Reachable(MaxMinuteSent)
    /\ \E user \in Users, c \in MinuteArgs : Command(user, c)

\* the request of a waiting analyze call fails
RequestFails ==
    \E k \in 1..MaxCalls, res \in { r \in FetchArgs : ~r.ok } : Fetch(k, res)

NextMinute ==
    \/ NewDeerBot
    \/ Advance
    \/ OnMinuteCommand
    \/ StudyAnswered
    \/ RequestFails
    \/ AnswerFetched
    \/ AnswerParsed
    \/ CallbackReturns

SpecMinute == Init /\ [][NextMinute]_vars

----------------------------------------------------------------------------
(* SpecBot: every command, at one instant; no article arrives *)

\* every command, the study command with the topics A and | only
BotArgs == { c \in CommandArgs :
               c.cmd = "study" => c.cargs \in { << Language, <<"A">> >>, << Language, <<"|">> >> } }

OnCommand ==
    /\ options # <<>>
    /\ Reachable(MaxSent)
    /\ \E user \in Users, c \in BotArgs : Command(user, c)

\* the body of a response cannot be read, or holds no pages
NothingParsed ==
    \E k \in 1..MaxCalls, data \in { d \in JsonArgs : d.query = <<>> \/ d.query[1].pages = <<>> } :
        Parse(k, data)

NextBot ==
    \/ NewDeerBot
    \/ OnCommand
    \/ StudyAnswered
    \/ Fetched
    \/ NothingParsed
    \/ AnswerFetched
    \/ AnswerParsed
    \/ CallbackReturns

SpecBot == Init /\ [][NextBot]_vars

----------------------------------------------------------------------------
(* SpecFiles: the generator is written to a file and read from it *)

\* the bot is woken and sent to sleep, studies A, explains, writes and reads
FileCommandArgs ==
    { c \in CommandArgs :
        \/ c.cmd \in {"start", "stop", "write", "read"}
        \/ c.cmd = "study" /\ c.cargs = << Language, <<"A">> >>
        \/ c.cmd = "explain" /\ c.cargs = << Language >> }

OnFileCommand ==
    /\ options # <<>>
    /\ Reachable(MaxFileSent)
    /\ \E user \in Users, c \in FileCommandArgs : Command(user, c)

\* the responses: every failure, the article A, and pages without text
FileJsonArgs == { d \in JsonArgs : (d.query # <<>> /\ d.query[1].pages # <<>>)
                                    => d.query[1].pages[1] \in { << PageA >>,
                                                                 << PageNull, PageUntitled >> } }

ArticleParsed == \E k \in 1..MaxCalls, data \in FileJsonArgs : Parse(k, data)

NextFiles ==
    \/ NewDeerBot
    \/ OnFileCommand
    \/ StudyAnswered
    \/ Fetched
    \/ ArticleParsed
    \/ AnswerFetched
    \/ AnswerParsed
    \/ CallbackReturns

SpecFiles == Init /\ [][NextFiles]_vars

----------------------------------------------------------------------------
(* SpecStudy: study and explain requests of an awake bot, with every response *)

\* the bot is woken; topics are studied and explained
StudyCommandArgs == { c \in CommandArgs : c.cmd \in {"start", "study", "explain"} }

OnStudyCommand ==
    /\ options # <<>>
    /\ Reachable(MaxSent)
    /\ \E user \in Users, c \in StudyCommandArgs : Command(user, c)

NextStudy ==
    \/ NewDeerBot
    \/ OnStudyCommand
    \/ StudyAnswered
    \/ Fetched
    \/ Parsed
    \/ AnswerFetched
    \/ AnswerParsed
    \/ CallbackReturns

SpecStudy == Init /\ [][NextStudy]_vars

----------------------------------------------------------------------------
(* Claims about ingestion and persistence, checked under SpecAnalyze *)

Count(seq, x) == Cardinality({k \in 1..Len(seq) : seq[k] = x})

TailsOf(g) == {g[k].tail : k \in 1..Len(g)}

\* C1: after any sequence of analyze calls on a fresh model, every node's weight
\* is the sum of its freqs plus the number of analyze calls that ended at its
\* tail, and its links and freqs have the same length.
C1_WeightInvariant ==
    \A k \in 1..Len(graph) :
        LET node == graph[k].node IN
        /\ Len(node.links) = Len(node.freqs)
        /\ node.weight = SumSeq(node.freqs) + Count(finals, graph[k].tail)

\* a node with transitions at whose tail two analyze calls ended
C1_Witness ==
    \E k \in 1..Len(graph) :
        /\ Count(finals, graph[k].tail) = 2
        /\ Len(graph[k].node.links) > 0
        /\ graph[k].node.weight > 2

\* same order, same set of tails, same node at every tail
SameSnapshot(d1, d2) ==
    /\ d1.order = d2.order
    /\ {p[1] : p \in {d1.graphData[k] : k \in 1..Len(d1.graphData)}}
         = {p[1] : p \in {d2.graphData[k] : k \in 1..Len(d2.graphData)}}
    /\ \A k1 \in 1..Len(d1.graphData), k2 \in 1..Len(d2.graphData) :
          d1.graphData[k1][1] = d2.graphData[k2][1]
             => d1.graphData[k1][2] = d2.graphData[k2][2]
    /\ Len(d1.graphData) = Len(d2.graphData)

\* C6: a model rebuilt by newFromDataObject from the toDataObject export of a
\* model built by analyze calls exports the same order and the same
\* tail -> node mapping.
C6_RoundTrip ==
    snapshot # <<>> => SameSnapshot(toDataObject(order, graph), snapshot[1])

\* a rebuilt model of order 2 with at least three nodes, one of them an exit
C6_Witness ==
    /\ snapshot # <<>>
    /\ order = 2
    /\ Len(graph) >= 3
    /\ \E k \in 1..Len(graph) : graph[k].node.isExit /\ Len(graph[k].node.links) > 0

\* the node at a tail, an absent one counting as empty
NodeOrEmpty(g, tail) == IF MapHas(g, tail) THEN MapGet(g, tail) ELSE createEmptyNode

FreqOf(node, word) ==
    IF indexOf(node.links, word) = 0 THEN 0 ELSE node.freqs[indexOf(node.links, word)]

\* the tail of the up-to-ord tokens before position j
ContextAt(words, ord, j) == toTail(SubSeq(words, Max(1, j - ord), j - 1))

FinalTail(words, ord) == toTail(SubSeq(words, Max(1, Len(words) - ord + 1), Len(words)))

AnalyzeEffect(g, g2, words, ord) ==
    LET n       == Len(words)
        touched == {ContextAt(words, ord, j) : j \in 1..n} \cup {FinalTail(words, ord)}
    IN
    /\ TailsOf(g2) = TailsOf(g) \cup touched
    /\ Len(g2) = Cardinality(TailsOf(g2))
    /\ \A t \in TailsOf(g2) :
          LET old == NodeOrEmpty(g, t)
              new == MapGet(g2, t)
              at  == {j \in 1..n : ContextAt(words, ord, j) = t}
              end == IF FinalTail(words, ord) = t THEN 1 ELSE 0
          IN
          /\ new.weight = old.weight + Cardinality(at) + end
          /\ new.isExit = (old.isExit \/ end = 1)
          /\ Len(new.links) = Len(new.freqs)
          /\ {new.links[k] : k \in 1..Len(new.links)}
                = {old.links[k] : k \in 1..Len(old.links)} \cup {words[j] : j \in at}
          /\ \A w \in {new.links[k] : k \in 1..Len(new.links)} :
                FreqOf(new, w) = FreqOf(old, w) + Cardinality({j \in at : words[j] = w})
          /\ (t \notin touched => new = old)

\* C9: analyzing a non-empty token sequence records one transition to every
\* token, in its original case, at the node of the lowercased up-to-order
\* preceding tokens, adds 1 to that node's weight per transition, then adds 1 to
\* the weight of the node at the final tail and marks it as an exit; no other
\* node changes.
C9_AnalyzeEffect ==
    [][(nAnalyze' = nAnalyze + 1 /\ Len(lastWords') > 0)
          => AnalyzeEffect(graph, graph', lastWords', order)]_vars

\* two tokens at order 1: the first token has left the context when the
\* sequence ends, and the stored word keeps its case while the tail does not
C9_Witness ==
    /\ order = 1
    /\ nAnalyze = 2
    /\ lastWords = << <<"B">>, <<"A", "b">> >>
    /\ MapGet(graph, <<"b">>).links = << <<"A", "b">> >>
    /\ MapGet(graph, <<"a", "b">>).isExit
    /\ MapGet(graph, <<>>).weight = 2

\* C10: after any sequence of analyze calls no node's links list holds the same
\* word twice.
C10_NoDuplicateLinks ==
    \A k \in 1..Len(graph) :
        \A a, b \in 1..Len(graph[k].node.links) :
            graph[k].node.links[a] = graph[k].node.links[b] => a = b

\* the same transition observed twice: one edge with frequency 2
C10_Witness ==
    \E k \in 1..Len(graph) :
        /\ graph[k].node.links = << <<"B">> >>
        /\ graph[k].node.freqs = <<2>>
        /\ graph[k].tail = <<"a">>

----------------------------------------------------------------------------
(* Claims about generation, checked under Spec and SpecAttempt *)

Succeeded(h) == h \in {"exit", "noword"}


\* C2: a single generation attempt leaves the tail -> node mapping, and so the
\* exported snapshot, as it was when the attempt was entered.
C2_GenerateReadOnly ==
    pc = "ret" => toDataObject(order, graph) = toDataObject(order, graph0)

\* C3 as stated: the returned text is empty with score 0 exactly when no attempt
\* reached a valid stop.
C3_EmptyIffNoStop ==
    pc = "done" =>
        ((candidate.sentence = <<>> /\ candidate.score = <<0, 1>>)
            <=> ~\E k \in 1..Len(results) : Succeeded(results[k].how))

\* C3 as amended: the returned text is empty with score 0 exactly when no attempt
\* scored above 0; a non-empty text comes from an attempt that reached a valid
\* stop, and text and score are empty and 0 together.
C3_EmptyIffNoPositiveScore ==
    pc = "done" =>
        /\ (candidate.sentence = <<>> /\ candidate.score = <<0, 1>>)
              <=> ~\E k \in 1..Len(results) : RatGt(results[k].score, <<0, 1>>)
        /\ candidate.sentence = <<>> <=> candidate.score = <<0, 1>>
        /\ candidate.sentence # <<>> =>
              \E k \in 1..Len(results) :
                 /\ Succeeded(results[k].how)
                 /\ results[k].sentence = candidate.sentence
                 /\ results[k].score = candidate.score

\* every attempt reached a valid stop without matching a keyword, and the
\* returned result is the empty one
C3_Witness ==
    /\ pc = "done"
    /\ Len(results) = 2
    /\ \A k \in 1..Len(results) : Succeeded(results[k].how) /\ results[k].sentence # <<>>
    /\ candidate = EmptyResult

\* C4: the returned score is at least the score of every attempt made and at
\* least 0; the retained result is the earliest attempt with the highest score,
\* or the empty result when no attempt scored above 0.
C4_BestOfN ==
    pc \in {"sample", "done"} =>
        /\ RatGe(candidate.score, <<0, 1>>)
        /\ \A k \in 1..Len(results) : RatGe(candidate.score, results[k].score)
        /\ IF \E k \in 1..Len(results) : RatGt(results[k].score, <<0, 1>>)
           THEN \E k \in 1..Len(results) :
                   /\ candidate.sentence = results[k].sentence
                   /\ candidate.score = results[k].score
                   /\ \A j \in 1..(k - 1) : RatGt(candidate.score, results[j].score)
           ELSE candidate = EmptyResult

\* two attempts with the same positive score and different texts: the earlier
\* one was returned
C4_Witness ==
    /\ pc = "done"
    /\ Len(results) = 2
    /\ RatGt(results[1].score, <<0, 1>>)
    /\ results[1].score = results[2].score
    /\ results[1].sentence # results[2].sentence
    /\ candidate.sentence = results[1].sentence

\* C5: a successful attempt that matched no keyword has final score 0, one that
\* matched a keyword has a positive score, and the retained result is never a
\* keyword-free attempt.
C5_KeywordFreeScoresZero ==
    /\ (pc = "ret" /\ Succeeded(how)) =>
          IF found = <<>> THEN result.score = <<0, 1>>
          ELSE RatGt(result.score, <<0, 1>>)
    /\ pc \in {"sample", "done"} =>
          \A k \in 1..Len(results) :
             (Succeeded(results[k].how) /\ results[k].found = 0) =>
                /\ results[k].score = <<0, 1>>
                /\ candidate # [sentence |-> results[k].sentence,
                                score |-> results[k].score]
                /\ \A j \in 1..Len(results) :
                      (Succeeded(results[j].how) /\ results[j].found > 0)
                         => RatGt(results[j].score, results[k].score)

\* a keyword-free success under a beta argument of 0, next to a
\* keyword-matching success that was retained
C5_Witness ==
    /\ pc = "done"
    /\ \E k \in 1..Len(results) :
          Succeeded(results[k].how) /\ results[k].found = 0
    /\ \E k \in 1..Len(results) :
          Succeeded(results[k].how) /\ results[k].found > 0
             /\ candidate.sentence = results[k].sentence
    /\ args.keywords # <<>>

\* C7 as stated: at finalization found.length is the number of distinct keywords
\* matched during the attempt, and at most the number of distinct keywords.
C7_FoundCountsKeywords ==
    (pc = "ret" /\ Succeeded(how)) =>
        /\ Len(found) = Cardinality(matched)
        /\ Len(found) <= Len(keywords)

NoDuplicates(seq) == \A a, b \in 1..Len(seq) : seq[a] = seq[b] => a = b

\* C7 as amended: at finalization found.length is the number of keyword matches
\* made during the attempt, a keyword counting again on every lap: found holds
\* distinct words, each containing a keyword, one for every keyword taken from
\* remaining; until remaining is refilled this is the number of distinct
\* keywords matched and less than the number of keywords.
C7_FoundCountsMatches ==
    (pc = "ret" /\ Succeeded(how)) =>
        /\ NoDuplicates(found)
        /\ \A k \in 1..Len(found) :
              \E x \in 1..Len(keywords) : includes(toLowerCase(found[k]), keywords[x])
        /\ Len(found) = laps * Len(keywords) + (Len(keywords) - Len(remaining))
        /\ Len(found) >= Cardinality(matched)
        /\ Len(found) <= i
        /\ laps = 0 => /\ Len(found) = Cardinality(matched)
                       /\ (keywords # <<>> => Len(found) < Len(keywords))

\* an attempt that finalized with more words in found than there are keywords
C7_Witness ==
    /\ pc = "ret"
    /\ Succeeded(how)
    /\ laps >= 1
    /\ Len(found) > Len(keywords)

\* the words of node that are not in fnd and contain a keyword of rem
Qualifying(node, rem, fnd) ==
    { k \in 1..Len(node.links) :
         /\ indexOf(fnd, node.links[k]) = 0
         /\ \E x \in 1..Len(rem) : includes(toLowerCase(node.links[k]), rem[x]) }

\* C8: the keyword view of the node of a step holds each outgoing word at most
\* once, exactly the words not in found that contain a remaining keyword, each
\* with its frequency, and its weight is the sum of those frequencies.
C8_MatchNodeView ==
    (pc = "loop" /\ Len(remaining) > 0 /\ MapHas(graph, toTail(queue))) =>
        LET node == MapGet(graph, toTail(queue))
            view == createMatchNode(node, remaining, found)
            qual == Qualifying(node, remaining, found)
        IN  /\ NoDuplicates(view.links)
            /\ Len(view.links) = Len(view.freqs)
            /\ {view.links[k] : k \in 1..Len(view.links)} = {node.links[k] : k \in qual}
            /\ \A k \in 1..Len(view.links) : view.freqs[k] = FreqOf(node, view.links[k])
            /\ view.weight = SumSeq([k \in 1..Len(node.freqs) |->
                                        IF k \in qual THEN node.freqs[k] ELSE 0])

----------------------------------------------------------------------------
(* Claims about the course of a single attempt, checked under SpecAttempt *)

IsEmptyResult(res) == res.sentence = <<>> /\ res.score = <<0, 1>>

\* C11: a loop iteration that finds weight 0 at the node of the current tail
\* makes the attempt return the empty result (text '', score 0) whatever text
\* and score it has accumulated; and every attempt on a model that never
\* ingested a token returns the empty result.
C11_WeightZeroAborts ==
    [][ /\ (/\ pc = "loop"
            /\ i < args.maxLength
            /\ NodeOrEmpty(graph, toTail(queue)).weight = 0)
           => (pc' = "ret" /\ IsEmptyResult(result'))
        /\ (pc = "loop" /\ pc' = "ret" /\ finals = <<>>) => IsEmptyResult(result')
      ]_vars

\* an attempt that had text and a positive score when it met a node of weight 0
C11_Witness ==
    /\ pc = "ret"
    /\ how = "abort"
    /\ NodeOrEmpty(graph, toTail(queue)).weight = 0
    /\ sentence # <<>>
    /\ RatGt(score, <<0, 1>>)
    /\ IsEmptyResult(result)

\* C12: an attempt makes at most maxLength loop iterations, every iteration
\* that continues, a soft sentence break included, advancing the loop counter
\* by one; an iteration that neither aborts nor stops has an outcome to sample;
\* and an attempt that ended without a successful stop returned the empty
\* result with score 0.
C12_BoundedAttempt ==
    /\ pc \in {"loop", "ret"} => steps <= args.maxLength
    /\ pc = "loop" => steps = i
    /\ (pc = "loop" /\ i < args.maxLength) =>
          LET node == NodeOrEmpty(graph, toTail(queue)) IN
          (node.weight > 0 /\ ~(i >= args.length /\ node.isExit))
             => nodeToSample(node, remaining, found).weight > 0
    /\ (pc = "ret" /\ ~Succeeded(how)) => IsEmptyResult(result)

\* an attempt that ran out of iterations, one of them a soft sentence break,
\* with text and a positive score in hand
C12_Witness ==
    /\ pc = "ret"
    /\ how = "exhausted"
    /\ steps = args.maxLength
    /\ steps >= 2
    /\ includes(sentence, <<" ">>)
    /\ RatGt(score, <<0, 1>>)
    /\ IsEmptyResult(result)

\* C13: an attempt returns a finalized result only from an iteration i with
\* length <= i < maxLength, so an exit node met before iteration length does
\* not stop it; and when maxLength <= length every attempt returns the empty
\* result.
C13_StopWindow ==
    pc = "ret" =>
        /\ (Succeeded(how) \/ ~IsEmptyResult(result)) =>
              (args.length <= i /\ i < args.maxLength /\ steps = i + 1)
        /\ args.maxLength <= args.length => IsEmptyResult(result)

\* an attempt that stopped at an exit node in iteration length = 2, having
\* passed, in iteration 1, the node of its first word, which is an exit too
C13_Witness ==
    /\ pc = "ret"
    /\ how = "exit"
    /\ i = args.length
    /\ i = 2
    /\ Len(queue) = 2
    /\ NodeOrEmpty(graph, toTail(<<queue[1]>>)).isExit
    /\ ~IsEmptyResult(result)

\* C14: a loop iteration that samples "no word" before iteration length
\* appends one separator to the text, empties the queue (so that the next
\* iteration resolves the empty tail), leaves found and remaining as they are
\* and goes on with the next iteration; from iteration length on it finalizes
\* and returns instead.
C14_SoftBreak ==
    [][ (pc = "loop" /\ steps' = steps + 1 /\ drew' = "noword") =>
           IF i < args.length
           THEN /\ sentence' = Append(sentence, " ")
                /\ queue' = <<>>
                /\ toTail(queue') = <<>>
                /\ found' = found
                /\ remaining' = remaining
                /\ i' = i + 1
                /\ pc' = "loop"
           ELSE /\ pc' = "ret"
                /\ how' = "noword"
                /\ result'.sentence = sentence
      ]_vars

\* the state after a soft sentence break that followed a keyword match
C14_Witness ==
    /\ pc = "loop"
    /\ drew = "noword"
    /\ i >= 1
    /\ Len(sentence) >= 2
    /\ sentence[Len(sentence)] = " "
    /\ queue = <<>>
    /\ Len(found) >= 1

SetOf(seq) == {seq[k] : k \in 1..Len(seq)}

\* the lowercased keywords of a call, as a set
KeywordSet(kws) == {toLowerCase(kws[k]) : k \in 1..Len(kws)}

\* C15: in an attempt with a non-empty keyword list, remaining is non-empty at
\* the start of every loop iteration and always a duplicate-free part of the
\* lowercased keyword set, and the iteration that matches its last entry
\* leaves it holding the full keyword set again.
C15_RemainingInvariant ==
    [][ /\ (pc' = "loop" /\ args'.keywords # <<>>) =>
              /\ remaining' # <<>>
              /\ NoDuplicates(remaining')
              /\ SetOf(remaining') \subseteq KeywordSet(args'.keywords)
        /\ (/\ pc = "loop"
            /\ steps' = steps + 1
            /\ Len(found') = Len(found) + 1
            /\ Len(remaining) = 1) =>
              /\ SetOf(remaining') = KeywordSet(args.keywords)
              /\ Len(remaining') = Cardinality(KeywordSet(args.keywords))
      ]_vars

\* the loop goes on after the second of two keywords was matched and remaining
\* was refilled
C15_Witness ==
    /\ pc = "loop"
    /\ laps >= 1
    /\ Len(keywords) = 2
    /\ Len(found) = 2
    /\ remaining = keywords

\* the word the latest iteration appended
LastWord == queue[Len(queue)]

\* C24: in a loop iteration that samples, when remaining is non-empty and the
\* current node has an outgoing word that is not in found and contains a
\* remaining keyword, the iteration does not yield "no word" and the word it
\* appends is one of those words; otherwise the draw is made from the full
\* node: the word is any outgoing word of the node, and "no word" is drawn only
\* where the node has weight beyond its transitions.
C24_KeywordViewForces ==
    [][ (pc = "loop" /\ steps' = steps + 1 /\ drew' # "none") =>
           LET node == NodeOrEmpty(graph, toTail(queue))
               qual == Qualifying(node, remaining, found)
           IN  IF Len(remaining) > 0 /\ qual # {}
               THEN /\ drew' = "word"
                    /\ \E k \in qual : node.links[k] = LastWord'
               ELSE /\ drew' = "word" =>
                          \E k \in 1..Len(node.links) : node.links[k] = LastWord'
                    /\ drew' = "noword" => node.weight > SumSeq(node.freqs)
      ]_vars

\* after the first iteration: it appended a word with a keyword although the
\* empty context also leads to a word without one
C24_Witness ==
    /\ pc = "loop"
    /\ i = 1
    /\ drew = "word"
    /\ found = <<LastWord>>
    /\ \E k \in 1..Len(NodeOrEmpty(graph, <<>>).links) :
          \A x \in 1..Len(keywords) :
             ~includes(toLowerCase(NodeOrEmpty(graph, <<>>).links[k]), keywords[x])

\* C30: in a model built by analyze calls only, a node is an exit exactly when
\* its weight exceeds the sum of its freqs; so no attempt samples "no word" in
\* an iteration i >= length, the finalization after "no word" never happens,
\* and every successful attempt ended at the stop check of an exit node.
C30_ExitIffSpareWeight ==
    /\ \A k \in 1..Len(graph) :
          graph[k].node.isExit <=> graph[k].node.weight > SumSeq(graph[k].node.freqs)
    /\ how # "noword"
    /\ (pc = "loop" /\ drew = "noword") => i <= args.length
    /\ (pc = "ret" /\ Succeeded(how)) =>
          /\ how = "exit"
          /\ drew = "none"
          /\ NodeOrEmpty(graph, toTail(queue)).isExit

\* an attempt that stopped at an exit node which has outgoing words as well
C30_Witness ==
    /\ pc = "ret"
    /\ how = "exit"
    /\ i >= 1
    /\ NodeOrEmpty(graph, toTail(queue)).isExit
    /\ Len(NodeOrEmpty(graph, toTail(queue)).links) > 0

----------------------------------------------------------------------------
(* Claims about generate as a function, checked under SpecClamp *)

\* C16: alpha and beta are clamped to [0.0625, 16.0] before use: on the same
\* model and the same random draws, a generate call with alpha above 16.0
\* (17.0, 1000.0) returns the text and the score of the call with alpha =
\* 16.0, and a call with alpha below 0.0625 (0, -1.0) those of the call with
\* alpha = 0.0625; likewise for beta.
C16_ClampedExponents ==
    outcome # <<>> =>
        LET a   == outcome[1].args
            rs  == outcome[1].draws
            res == outcome[1].result
        IN  /\ a.alpha = <<16, 1>> => \A x \in AboveRange :
                  generateWith(outcome[1].before, order, [a EXCEPT !.alpha = x], rs) = res
            /\ a.alpha = <<1, 16>> => \A x \in BelowRange :
                  generateWith(outcome[1].before, order, [a EXCEPT !.alpha = x], rs) = res
            /\ a.beta = <<16, 1>> => \A x \in AboveRange :
                  generateWith(outcome[1].before, order, [a EXCEPT !.beta = x], rs) = res
            /\ a.beta = <<1, 16>> => \A x \in BelowRange :
                  generateWith(outcome[1].before, order, [a EXCEPT !.beta = x], rs) = res
            /\ \A k \in 1..Len(res.score.terms) :
                  /\ RatGe(res.score.terms[k].exp, <<1, 16>>)
                  /\ RatGe(<<16, 1>>, res.score.terms[k].exp)
            /\ res.sentence # <<>> =>
                  /\ RatGe(res.score.exp, <<1, 16>>)
                  /\ RatGe(<<16, 1>>, res.score.exp)

\* a call with alpha = 16.0 that returned a text with a keyword match, a word
\* of it sampled with a chance below 1
C16_Witness ==
    /\ outcome # <<>>
    /\ outcome[1].args.alpha = <<16, 1>>
    /\ outcome[1].result.sentence # <<>>
    /\ outcome[1].result.score.base >= 1
    /\ \E k \in 1..Len(outcome[1].result.score.terms) :
          outcome[1].result.score.terms[k].chance # <<1, 1>>

----------------------------------------------------------------------------
(* Claims about the RateLimiter, checked under SpecLimiter *)

\* C17: a RateLimiter constructed without initialCount starts with count =
\* capacity, one constructed with initialCount c with min(capacity, c); a
\* count read dt > 0 milliseconds after the latest refill returns
\* min(capacity, previous count + dt * capacity / fillTime), capacity and
\* fillTime being the values the limiter was constructed with, so that an
\* empty bucket is full fillTime milliseconds later.
C17_InitialAndRefill ==
    (lastCall # <<>> /\ limiter # <<>>) =>
        LET c        == lastCall[1]
            capacity == built[1].capacity
            fillTime == built[1].fillTime
        IN  /\ c.op = "new" =>
                  limiter[1].count = IF built[1].initialCount = <<>> THEN DblOf(capacity)
                                     ELSE DblMin(DblOf(capacity),
                                                 DblOf(built[1].initialCount[1]))
            /\ (c.op = "count" /\ c.at > c.before.lastAdded) =>
                  c.returned =
                     DblMin(DblOf(capacity),
                            DblAdd(c.before.count,
                                   DblDiv(RatMul(<<c.at - c.before.lastAdded, 1>>, capacity),
                                          fillTime)))

\* C18: tryRemoveTokens(n) returns true and takes exactly n from the refilled
\* count when that count is at least n; otherwise it returns false and leaves
\* the refilled count as it is, taking no part of n.
C18_AllOrNothing ==
    (lastCall # <<>> /\ lastCall[1].op = "remove") =>
        LET c        == lastCall[1]
            refilled == addTokens(c.before, c.at).count
        IN  IF DblGe(refilled, DblOf(c.n))
            THEN /\ c.returned
                 /\ limiter[1].count = DblSub(refilled, DblOf(c.n))
                 /\ DblAdd(limiter[1].count, DblOf(c.n)) = refilled
            ELSE ~c.returned /\ limiter[1].count = refilled

\* a call refused although the bucket, refilled since the previous call, held
\* tokens: 0.5 asked of a bucket whose two refills of a third and two thirds,
\* less the 0.5 taken between them, come to 0.49999999999999994
C18_Witness ==
    /\ lastCall # <<>>
    /\ lastCall[1].op = "remove"
    /\ ~lastCall[1].returned
    /\ lastCall[1].n = <<1, 2>>
    /\ lastCall[1].at > lastCall[1].before.lastAdded
    /\ DblGt(limiter[1].count, lastCall[1].before.count)
    /\ DblGt(limiter[1].count, DblSub(<<1, 2>>, <<1, TwoTo(SmallBits)>>))

\* C19: for a RateLimiter constructed with valid arguments, after any clock
\* changes, count reads and tryRemoveTokens(n) calls with n >= 0, the token
\* count is at least 0 and at most the capacity of the bucket.
C19_CountInRange ==
    limiter # <<>> =>
        /\ DblGe(limiter[1].count, <<0, 1>>)
        /\ DblGe(DblInt(limiter[1].capacity), limiter[1].count)

----------------------------------------------------------------------------
(* Claims about the per-minute limits, checked under SpecMinute *)

\* how many of the times of seq lie in the minute that begins at t
InMinuteFrom(seq, t) == Cardinality({k \in 1..Len(seq) : seq[k] >= t /\ seq[k] < t + MinuteMs})

\* C20: the per-minute limits are maxima: in any window of 60 seconds DeerBot
\* accepts at most maxUserRequestsPerMinute rate-limited commands of one user,
\* and a WikiGenerator issues at most maxRequestsPerMinute requests.
C20_PerMinuteMaxima ==
    options # <<>> =>
        /\ \A u \in Users : \A k \in 1..Len(accepted[u]) :
              InMinuteFrom(accepted[u], accepted[u][k]) <= options[1].maxUserRequestsPerMinute
        /\ \A k \in 1..Len(requests) :
              InMinuteFrom(requests, requests[k]) <= wiki[1].options.maxRequestsPerMinute

----------------------------------------------------------------------------
(* Claims about DeerBot's commands, checked under SpecBot *)

\* the step handles a command
CommandStep == lastCmd = <<>> /\ lastCmd' # <<>>

\* the commands _onCommand answers for admins before the rate limit
AdminCommands == {"kick", "start", "sleep", "stop", "write", "read", "set"}

\* the commands behind the rate limit and the awake flag, by what they do
Executed(c) == c.did # {} \/ c.threw

\* nothing but the histories and the users' entries changes
OnlyUsersChange ==
    /\ awake' = awake
    /\ options' = options
    /\ wiki' = wiki
    /\ limiter' = limiter
    /\ calls' = calls
    /\ detached' = detached
    /\ disk' = disk
    /\ graph' = graph
    /\ finals' = finals

\* C21: a command sent by a user listed in config.admins is never dropped
\* because of the per-user rate limiter.
C21_AdminsNeverLimited ==
    (lastCmd # <<>> /\ lastCmd[1].user \in Admins) => lastCmd[1].removed # << FALSE >>

\* C25: the awake flag starts false.  It changes only in a command from an
\* admin: kick and start leave it true, sleep and stop leave it false, each
\* with one answer when the flag changes and another when it already had the
\* value.  No command from a non-admin, no other command and no other step
\* changes it.
C25_AwakeOnlyByAdmins ==
    /\ awake = FALSE
    /\ [][ /\ awake' # awake =>
                /\ CommandStep
                /\ lastCmd'[1].user \in Admins
                /\ lastCmd'[1].cmd \in {"kick", "start", "sleep", "stop"}
           /\ (CommandStep /\ lastCmd'[1].user \in Admins) =>
                LET c == lastCmd'[1] IN
                /\ c.cmd \in {"kick", "start"} =>
                     /\ awake'
                     /\ c.replies = << Reply(IF awake THEN "*whine*"
                                             ELSE "*Windows 98 SE startup noises*", <<>>) >>
                /\ c.cmd \in {"sleep", "stop"} =>
                     /\ ~awake'
                     /\ c.replies = << Reply(IF awake THEN "*Windows 98 SE shutdown sound*"
                                             ELSE "*snore*", <<>>) >>
      ]_vars

\* an admin's kick has met a bot that was awake already, and left it awake
C25_Witness ==
    /\ lastCmd # <<>>
    /\ lastCmd[1].user \in Admins
    /\ lastCmd[1].cmd = "kick"
    /\ lastCmd[1].awake
    /\ awake
    /\ \E u \in Users \ Admins : users[u] # <<>>

\* C26: a study, explain, help or canned-response command is executed only if
\* the bot is awake and one token was removed from the sender's bucket in that
\* same command.  When the removal fails nothing is executed and nothing but
\* the sender's entry changes (an admin is told so).  When the bot is asleep
\* the token is removed all the same and the only effect is the sleep reply.
C26_ExecutedOnlyAwakeWithToken ==
    [][ CommandStep =>
          LET c      == lastCmd'[1]
              bucket == IF users[c.user] = <<>>
                        THEN <<options[1].maxUserRequestsPerMinute, 1>>
                        ELSE addTokens(users[c.user][1], now).count
              left   == users'[c.user][1].count
          IN  ~(c.user \in Admins /\ c.cmd \in AdminCommands) =>
                /\ c.removed # <<>>
                /\ Executed(c) =>
                     /\ awake
                     /\ c.removed = << TRUE >>
                /\ c.removed = << TRUE >> =>
                     /\ DblGe(bucket, <<1, 1>>)
                     /\ left = DblSub(bucket, <<1, 1>>)
                /\ c.removed = << FALSE >> =>
                     /\ DblGt(<<1, 1>>, bucket)
                     /\ left = bucket
                     /\ ~Executed(c)
                     /\ c.replies = IF c.user \in Admins
                                    THEN << Reply("*slaps with a hoof*", c.user) >> ELSE <<>>
                     /\ OnlyUsersChange
                /\ (c.removed = << TRUE >> /\ ~awake) =>
                     /\ ~Executed(c)
                     /\ c.replies = << Reply("*Zzz...*", <<>>) >>
                     /\ OnlyUsersChange
      ]_vars

\* a study command of a user whose bucket was empty has been dropped while the
\* bot was awake, after a study command of that user went through
C26_Witness ==
    /\ lastCmd # <<>>
    /\ lastCmd[1].cmd = "study"
    /\ lastCmd[1].awake
    /\ lastCmd[1].removed = << FALSE >>
    /\ lastCmd[1].user \notin Admins
    /\ calls # <<>>

----------------------------------------------------------------------------
(* Claims about reading and writing the generator, checked under SpecFiles *)

\* the generator the bot holds and its request limiter stay as they are
GeneratorStays ==
    /\ wiki' = wiki
    /\ order' = order
    /\ graph' = graph
    /\ finals' = finals
    /\ limiter' = limiter

\* what a command did to the file system and to the generator
FileDeeds == {"toFile", "fromFile", "written", "replaced"}

\* C27: write and read are carried out only for admins and only while the bot
\* is asleep.  While awake they are refused without touching the file system
\* or the generator.  The generator in memory is replaced only by a read that
\* completed without error; after a failed read the previous generator is
\* still in place.
C27_PersistenceOnlyAsleep ==
    [][ CommandStep =>
          LET c == lastCmd'[1] IN
          /\ c.did \cap FileDeeds # {} =>
               /\ c.cmd \in {"write", "read"}
               /\ c.user \in Admins
               /\ ~awake
          /\ (c.cmd \in {"write", "read"} /\ c.user \in Admins /\ awake) =>
               /\ c.did = {}
               /\ c.replies = << Reply("*sleepy noises*", <<>>) >>
               /\ disk' = disk
               /\ GeneratorStays
          /\ c.cmd \in {"write", "read"} =>
               /\ disk' # disk => "written" \in c.did /\ c.cmd = "write"
               /\ ~GeneratorStays =>
                    /\ c.did = {"fromFile", "replaced"}
                    /\ c.cmd = "read"
                    /\ c.replies = << Reply("*playback sounds*", <<>>) >>
               /\ "replaced" \in c.did =>
                    /\ Len(c.cargs) = 1
                    /\ disk[c.cargs[1]] # <<>>
                    /\ wikiToDataObject(CurrentGenerator)' = disk[c.cargs[1]][1].data
               /\ (c.cmd = "read" /\ c.replies # << Reply("*playback sounds*", <<>>) >>) =>
                    GeneratorStays
          /\ c.cmd \notin {"write", "read"} =>
               /\ disk' = disk
               /\ wiki'[1].options = wiki[1].options
               /\ limiter'[1].capacity = limiter[1].capacity
          /\ c.cmd \notin {"write", "read", "study", "explain"} => GeneratorStays
      ]_vars

\* a read of a file that holds a generator has failed while the bot, asleep,
\* held a generator with a model the file does not hold
C27_Witness ==
    /\ lastCmd # <<>>
    /\ lastCmd[1].cmd = "read"
    /\ lastCmd[1].did = {"fromFile"}
    /\ lastCmd[1].cargs = << <<"f">> >>
    /\ ~awake
    /\ disk[<<"f">>] # <<>>
    /\ wiki[1].made
    /\ graph # <<>>
    /\ disk[<<"f">>][1].data # wikiToDataObject(CurrentGenerator)

----------------------------------------------------------------------------
(* Claims about study and explain requests, checked under SpecStudy and   *)
(* SpecWiki                                                               *)

\* the segments of the articles the responses tell of
ArticleSegments(minInputLength) ==
    formatText(PageA.extract[1], minInputLength)
      \o formatText(PageB.extract[1], minInputLength)
      \o formatText(PageUntitled.extract[1], minInputLength)

\* the Map after a SentenceGraph.analyze call for each of the segments at the
\* places in picked, in that order
RECURSIVE AfterWholeCalls(_, _, _, _)
AfterWholeCalls(g, ord, segments, picked) ==
    IF picked = <<>> THEN g
    ELSE AfterWholeCalls(analyze(g, ord, parseWords(segments[Head(picked)])),
                         ord, segments, Tail(picked))

\* the sequences of distinct places of a sequence of n members
Picks(n) ==
    UNION { { p \in [1..m -> 1..n] : \A a, b \in 1..m : a # b => p[a] # p[b] } : m \in 0..n }

\* the models a whole number of completed analyze calls leaves
GraphsOf(ord, minInputLength) ==
    LET segments == ArticleSegments(minInputLength) IN
    { AfterWholeCalls(<<>>, ord, segments, p) : p \in Picks(Len(segments)) }

\* those of a generator with the defaults of its options
DefaultGraphs == GraphsOf(WikiDefaults.sentenceGraphOrder, WikiDefaults.minInputLength)

WholeGraphs(ord, minInputLength) ==
    IF ord = WikiDefaults.sentenceGraphOrder /\ minInputLength = WikiDefaults.minInputLength
    THEN DefaultGraphs
    ELSE GraphsOf(ord, minInputLength)

\* the generator's queries
Queries == IF wiki = <<>> \/ wiki[1].library = <<>> THEN <<>> ELSE wiki[1].library[1].queries

\* the node a generation sees at every tail is the one it sees in w; a
\* generation sees a tail through _nodeAt, to which a tail without node and a
\* tail with an empty node are the same
SeenAs(g, w) ==
    \A tail \in TailsOf(g) \cup TailsOf(w) : NodeOrEmpty(g, tail) = NodeOrEmpty(w, tail)

\* C22: no generation observes a partially ingested model.  Study and explain
\* requests interleave only where analyze waits, so the model a generation
\* reads is, in every state, the model after a whole number of completed
\* SentenceGraph.analyze calls, and the weight invariant holds in it.
C22_GenerationSeesWholeModels ==
    (wiki # <<>> /\ wiki[1].made) =>
        /\ \E w \in WholeGraphs(order, wiki[1].options.minInputLength) : SeenAs(graph, w)
        /\ \A k \in 1..Len(graph) :
              /\ Len(graph[k].node.links) = Len(graph[k].node.freqs)
              /\ graph[k].node.weight
                   = SumSeq(graph[k].node.freqs) + Count(finals, graph[k].tail)

\* an explain request has generated a sentence from the model of one article
\* while the analyze call of a later study request waits for its response
C22_Witness ==
    /\ lastCmd # <<>>
    /\ lastCmd[1].cmd = "explain"
    /\ "generate" \in lastCmd[1].did
    /\ lastCmd[1].replies # <<>>
    /\ calls # <<>>
    /\ graph # <<>>
    /\ Len(finals) = 1

\* the analyze calls that wait for a response or for its body
Waiting(cs) == SelectSeq(cs, LAMBDA call : call.stage # "ended")

\* the step in which analyze is called
AnalyzeBegins ==
    /\ Quiet
    /\ lastAnalyze' # <<>>
    /\ lastAnalyze'[1].fresh
    /\ lastAnalyze'[1].reply = <<>>
    /\ Len(calls') >= Len(calls)

\* the step in which an analyze call ends (returned or threw)
AnalyzeEnds ==
    /\ Quiet
    /\ lastAnalyze' # <<>>
    /\ lastAnalyze'[1].fresh
    /\ lastAnalyze'[1].returned # <<>>

\* C23: analyze returns -1, without removing a token from the request limiter
\* and without a request, when the title is among the queries of the language,
\* and only then.  A title comes among the queries only in the step in which
\* its analysis ends by returning a count; a call that throws (rate limit,
\* failed request, missing data) leaves the queries as they are, and a later
\* call asks for the article again.
C23_QueriedOnlyWhenAnalyzed ==
    [][ /\ AnalyzeBegins =>
             LET a == lastAnalyze'[1] IN
             /\ a.had = (indexOf(Queries, a.title) # 0)
             /\ a.had <=> a.returned = << Returned(-1) >>
             /\ a.had => /\ ~a.sent
                         /\ a.left = a.tokens
                         /\ limiter' = limiter
                         /\ Waiting(calls') = Waiting(calls)
                         /\ requests' = requests
             /\ (~a.had /\ a.returned = <<>>) =>
                   /\ a.sent
                   /\ a.left = DblSub(addTokens(limiter[1], now).count, <<1, 1>>)
                   /\ requests' = Append(requests, now)
        /\ (AnalyzeEnds /\ lastAnalyze'[1].returned[1][1] = "throws") => Queries' = Queries
        /\ Queries' # Queries =>
             /\ AnalyzeEnds
             /\ lastAnalyze'[1].returned[1][1] = "returns"
             /\ lastAnalyze'[1].returned[1][2] >= 0
             /\ Queries' = Append(Queries, lastAnalyze'[1].title)
      ]_vars

\* a title whose analysis failed at the request limit has been analyzed since,
\* and a further call for it has returned -1
C23_Witness ==
    /\ lastAnalyze # <<>>
    /\ lastAnalyze[1].fresh
    /\ lastAnalyze[1].returned = << Returned(-1) >>
    /\ lastAnalyze[1].title \in lastAnalyze[1].limited
    /\ lastAnalyze[1].had
    /\ indexOf(Queries, lastAnalyze[1].title) # 0

----------------------------------------------------------------------------
(* Claims about the TelegramBot, checked under SpecPoll *)

\* the getUpdates requests and the timers among the outstanding
Polls(P) == SelectSeq(P, LAMBDA p : p.kind \in {"getUpdates", "timer"})

\* the latest step raised an error while polling
PollError(ev) == ev # <<>> /\ \E k \in 1..Len(ev[1].raised) : ev[1].raised[k].where = "poll"

\* C28: at most one getUpdates request or re-poll timer is outstanding at any
\* time (exactly one until the process exits).  A poll that succeeds leaves one
\* timer due pollDelay later.  A poll that fails leaves one timer due
\* pollErrorDelay later and takes one token from the error bucket if the bucket,
\* refilled, holds one; otherwise the process exits and no timer is set.
C28_OnePollOutstanding ==
    [][ telegram' # <<>> =>
          LET T    == telegram'[1]
              next == Polls(pending')
          IN  /\ Len(next) <= 1
              /\ ~T.exited => Len(next) = 1
              /\ (/\ telegram # <<>>
                  /\ \E k \in 1..Len(pending) :
                        pending[k].kind = "getUpdates" /\ pending[k].stage = "json"
                  /\ \A k \in 1..Len(pending') : pending'[k].kind # "getUpdates"
                  /\ ~PollError(events'))
                 => /\ ~T.exited
                    /\ next = << [kind |-> "timer", stage |-> "set",
                                  info |-> now + T.options.pollDelay] >>
              /\ (telegram' # telegram /\ PollError(events'))
                 => LET before == IF telegram # <<>> THEN telegram[1].errorLimiter
                                  ELSE RateLimiter(<<T.options.maxErrorsPerHour, 1>>,
                                                   <<HourMs, 1>>, <<>>, now)
                        bucket == addTokens(before, now).count
                    IN  IF DblGe(bucket, <<1, 1>>)
                        THEN /\ ~T.exited
                             /\ next = << [kind |-> "timer", stage |-> "set",
                                           info |-> now + T.options.pollErrorDelay] >>
                             /\ T.errorLimiter.count = DblSub(bucket, <<1, 1>>)
                        ELSE /\ T.exited
                             /\ next = <<>>
      ]_vars

\* the process has exited on a failed poll at a time when the error bucket,
\* emptied by an earlier failure, had refilled to less than one token
C28_Witness ==
    /\ telegram # <<>>
    /\ telegram[1].exited
    /\ PollError(events)
    /\ now > 0
    /\ DblGt(telegram[1].errorLimiter.count, <<0, 1>>)
    /\ DblGt(<<1, 1>>, telegram[1].errorLimiter.count)
    /\ Polls(pending) = <<>>

\* C29: every error raised while polling updates or while sending a response is
\* delivered to the listeners registered for the 'error' event.
C29_ErrorsDelivered ==
    events # <<>> =>
        \A k \in 1..Len(events[1].raised) :
            \E j \in 1..Len(events[1].received) :
                events[1].received[j].name = EventName("error")

====
